---------------------------- MODULE Spec2Model ----------------------------
(***************************************************************************)
(* Conversational context store and follow-up handling of the Slack       *)
(* summarizer bot: ConversationStateManager (bot/utils/conversation_state) *)
(* and ConversationHandler.handle_message (bot/handlers/                   *)
(* conversation_handler), run by concurrent worker threads.                *)
(*                                                                         *)
(* Text is a sequence of characters (one-character strings; a code point   *)
(* outside ASCII is written "U+XXXX").  Indices of the text operators are  *)
(* Python's, starting at 0.  Time is counted in minutes.                   *)
(***************************************************************************)
EXTENDS Integers, Sequences, FiniteSets, TLC

(***************************************************************************)
(* Bounds and sets of inputs                                               *)
(***************************************************************************)
\* the last minute at which the clock is read
MaxTime == 5

\* the number of events the worker threads take in one run
MaxEvents == 2

Users == {"U1", "U2"}

\* worker threads, each running one handle_message call at a time
Requests == {"r1", "r2"}

\* Python's None, for values that are strings when present
None == "None"

\* Optional values that are not strings: absent, or present with a value
Absent == [some |-> FALSE]

Some(x) == [some |-> TRUE, val |-> x]

(***************************************************************************)
(* Python string operations on character sequences                         *)
(***************************************************************************)
Whitespace == {" ", "\n", "\t", "\r"}

\* s[a:b]
Slice(s, a, b) == SubSeq(s, a + 1, b)

\* s.find(sub, start): lowest index >= start where sub occurs, else -1
Find(s, sub, start) ==
    LET hits == {i \in start .. (Len(s) - Len(sub)) :
                    Slice(s, i, i + Len(sub)) = sub}
    IN  IF hits = {} THEN -1
        ELSE CHOOSE i \in hits : \A j \in hits : i <= j

\* sub in s
Contains(s, sub) == Find(s, sub, 0) # -1

\* s.split(sep)[0]
SplitFirst(s, sep) ==
    IF Contains(s, sep) THEN Slice(s, 0, Find(s, sep, 0)) ELSE s

\* s.strip()
Strip(s) ==
    LET keep == {i \in 1 .. Len(s) : s[i] \notin Whitespace}
    IN  IF keep = {} THEN << >>
        ELSE LET lo == CHOOSE i \in keep : \A j \in keep : i <= j
                 hi == CHOOSE i \in keep : \A j \in keep : i >= j
             IN  SubSeq(s, lo, hi)

(***************************************************************************)
(* Section headers of a generated summary                                  *)
(***************************************************************************)
HdrContributors ==
    <<"C", "o", "n", "t", "r", "i", "b", "u", "t", "o", "r", "s">>

HdrUrgent ==
    <<"N", "e", "e", "d", "s", " ", "I", "m", "m", "e", "d", "i", "a", "t",
      "e", " ", "A", "t", "t", "e", "n", "t", "i", "o", "n", " ", "U+1F6A8">>

HdrTopics ==
    <<"K", "e", "y", " ", "T", "o", "p", "i", "c", "s">>

HdrDecisions ==
    <<"D", "e", "c", "i", "s", "i", "o", "n", "s", " ", "&", " ", "A", "c",
      "t", "i", "o", "n", "s">>

HdrQuestions ==
    <<"S", "t", "a", "t", "u", "s", " ", "&", " ", "Q", "u", "e", "s", "t",
      "i", "o", "n", "s">>

SummaryDetails ==
    <<"S", "u", "m", "m", "a", "r", "y", " ", "D", "e", "t", "a", "i", "l",
      "s">>

SectionTypes == {"contributors", "urgent", "topics", "decisions", "questions"}

\* section_headers: section type -> list of headers; .get(section_type, [])
section_headers(section_type) ==
    CASE section_type = "contributors" -> <<HdrContributors>>
      [] section_type = "urgent"       -> <<HdrUrgent>>
      [] section_type = "topics"       -> <<HdrTopics>>
      [] section_type = "decisions"    -> <<HdrDecisions>>
      [] section_type = "questions"    -> <<HdrQuestions>>
      [] OTHER                         -> << >>

\* every header of every section type (section_headers.values(), flattened)
AllHeaders ==
    {section_headers(t)[i] : t \in SectionTypes, i \in {1}}

\* the index where the section ends: the earliest header at or after
\* start_idx, or -1 for float('inf')
next_header_idx(summary_text, start_idx) ==
    LET found == {Find(summary_text, h, start_idx) : h \in AllHeaders} \ {-1}
    IN  IF found = {} THEN -1
        ELSE CHOOSE i \in found : \A j \in found : i <= j

\* the content when only the section's own header ends the section
section_content_for_same_type(summary_text, header) ==
    LET start_idx == Find(summary_text, header, 0) + Len(header)
        next_idx  == Find(summary_text, header, start_idx)
    IN  IF next_idx = -1
        THEN Strip(SplitFirst(Slice(summary_text, start_idx, Len(summary_text)),
                              SummaryDetails))
        ELSE Strip(Slice(summary_text, start_idx, next_idx))

\* the content delimited for one header that occurs in the text
section_content_for(summary_text, header) ==
    LET start_idx == Find(summary_text, header, 0) + Len(header)
        next_idx  == next_header_idx(summary_text, start_idx)
    IN  IF next_idx = -1
        THEN Strip(SplitFirst(Slice(summary_text, start_idx, Len(summary_text)),
                              SummaryDetails))
        ELSE Strip(Slice(summary_text, start_idx, next_idx))

\* a loop that returns the content of the first header found, empty or not
RECURSIVE try_headers_returning_empty(_, _, _)
try_headers_returning_empty(summary_text, headers, k) ==
    IF k > Len(headers) THEN Absent
    ELSE IF Contains(summary_text, headers[k])
         THEN Some(section_content_for(summary_text, headers[k]))
         ELSE try_headers_returning_empty(summary_text, headers, k + 1)

\* the loop over the section's headers: the first non-empty content, or None
RECURSIVE try_headers(_, _, _)
try_headers(summary_text, headers, k) ==
    IF k > Len(headers) THEN Absent
    ELSE IF Contains(summary_text, headers[k])
            /\ section_content_for(summary_text, headers[k]) # << >>
         THEN Some(section_content_for(summary_text, headers[k]))
         ELSE try_headers(summary_text, headers, k + 1)


(***************************************************************************)
(* Python dicts with string keys, as functions                             *)
(***************************************************************************)
\* {'text': t}
SummaryDict(t) == [text |-> t]

\* bool(d) of a dict
dict_truthy(d) == DOMAIN d # {}

(***************************************************************************)
(* Replies of the outside world                                            *)
(***************************************************************************)
BulletA == <<"U+2022", " ", "A", ".">>

BulletF == <<"U+2022", " ", "F", ".">>

BulletT == <<"U+2022", " ", "T", ".">>

\* a summary with the sections Contributors and Needs Immediate Attention
DocContributors ==
    HdrContributors \o <<"\n">> \o BulletA \o <<"\n", "\n">>
        \o HdrUrgent \o <<"\n">> \o BulletF

\* a summary with the section Key Topics only
DocTopics == HdrTopics \o <<"\n">> \o BulletT

\* an empty answer of the model
DocEmpty == << >>

SummaryDocs == {DocContributors, DocTopics, DocEmpty}

\* what the hosted model does on one call: it answers with a text or raises
ModelReplies ==
    {[kind |-> "raise", text |-> << >>]}
        \cup {[kind |-> "text", text |-> d] : d \in SummaryDocs}

FocusedReplies ==
    {[kind |-> "raise", text |-> << >>],
     [kind |-> "text", text |-> BulletA]}

ChannelMessages == <<"m1", "m2">>

ThreadMessages == <<"m3">>

\* what the Slack API does on one history call
FetchReplies(intent) ==
    {[kind |-> "slack_api_error", messages |-> << >>],
     [kind |-> "error", messages |-> << >>],
     [kind |-> "not_ok", messages |-> << >>],
     [kind |-> "ok", messages |-> << >>],
     [kind |-> "ok", messages |->
         IF intent = "thread_summary" THEN ThreadMessages
                                      ELSE ChannelMessages]}

\* the result of a call: a returned value or a raised error
Returned(x) == [raised |-> FALSE, value |-> x]

RaisedError == [raised |-> TRUE, value |-> Absent]

(***************************************************************************)
(* Inbound events                                                          *)
(***************************************************************************)
ChannelIds == {"C1"}

ThreadTss == {None, "171.1"}

FollowUpSections == {"contributors", "topics"}

\* the results of recognize_intent
IntentDatas ==
    {[intent |-> "greeting", channel |-> None, section_type |-> None],
     [intent |-> "channel_summary", channel |-> "general",
      section_type |-> None],
     [intent |-> "thread_summary", channel |-> None, section_type |-> None],
     [intent |-> "feedback", channel |-> None, section_type |-> None],
     [intent |-> "help", channel |-> None, section_type |-> None],
     [intent |-> "unknown", channel |-> None, section_type |-> None]}
        \cup {[intent |-> "follow_up", channel |-> None, section_type |-> s] :
                 s \in FollowUpSections}

\* the events: a thread summary is asked inside or outside a thread, the
\* other messages are posted outside a thread
Events ==
    {[user |-> u, channel |-> c, thread_ts |-> t, intent_data |-> d] :
        u \in Users, c \in ChannelIds, t \in ThreadTss, d \in IntentDatas}
        \ {[user |-> u, channel |-> c, thread_ts |-> t, intent_data |-> d] :
              u \in Users, c \in ChannelIds, t \in ThreadTss \ {None},
              d \in {x \in IntentDatas : x.intent # "thread_summary"}}

(***************************************************************************)
(* Responses of handle_message: prefix \o body                             *)
(***************************************************************************)
FixedResp(msg) == [prefix |-> msg, body |-> << >>]

TextResp(t) == [prefix |-> "", body |-> t]

GreetingMsg ==
    ":wave: Hello! I'm here to help summarize channels and threads. What would you like to know?"

CouldntFetchChannelMsg ==
    ":warning: I couldn't fetch messages from that channel. Make sure I have access to it!"

SorryTroubleMsg == "Sorry, I had trouble generating a summary."

TroubleGeneratingMsg ==
    ":warning: I had trouble generating a summary. Please try again!"

\* (the backquotes of the source text are written as quotes)
NeedThreadMsg ==
    ":warning: This command works best in a thread! Please use '/summary thread' as a reply inside the thread you want to summarize, or use '/summary thread [message-link]'."

CouldntFetchThreadMsg == ":warning: I couldn't fetch messages from this thread!"

NeedContextMsg ==
    ":thinking_face: I need some context first. Try asking for a channel or thread summary, then I can answer follow-up questions!"

NotSureMsg ==
    ":thinking_face: I'm not sure what specific information you're looking for. Try asking about contributors, urgent items, topics, decisions, or questions!"

FoundPrefix == ":mag: Here's what I found:\n"

CouldntFindMsg ==
    ":warning: I couldn't find that information in the current context."

TroubleAnalyzingMsg ==
    ":warning: I had trouble analyzing that aspect of the conversation."

FeedbackMsg ==
    ":smile: Thank you for your feedback! I'm constantly learning to serve you better."

HelpMsg == ":robot_face: *Beta-Summarizer Commands Guide*"

\* d.get('text', default), as a response
get_text(d, default) ==
    IF "text" \in DOMAIN d THEN TextResp(d.text) ELSE FixedResp(default)

(***************************************************************************)
(* ConversationContext and ConversationStateManager                        *)
(***************************************************************************)
\* minutes a context stays valid
ValidityWindow == 5

\* a constructor that forgets the thread id
ConversationContextNoThread(name, id, last_summary, last_messages, thread_ts, t) ==
    [channel_name  |-> name,
     channel_id    |-> id,
     last_summary  |-> last_summary,
     last_messages |-> last_messages,
     thread_ts     |-> None,
     timestamp     |-> t]

\* ConversationContext.__init__, with t the value of datetime.now()
ConversationContext(name, id, last_summary, last_messages, thread_ts, t) ==
    [channel_name  |-> name,
     channel_id    |-> id,
     last_summary  |-> last_summary,
     last_messages |-> last_messages,
     thread_ts     |-> thread_ts,
     timestamp     |-> t]

\* a validity check that never lets a context expire
is_context_valid_forever(context, t) == t - context.timestamp >= 0

\* a validity check that still accepts a context exactly ValidityWindow old
is_context_valid_inclusive(context, t) ==
    t - context.timestamp <= ValidityWindow

\* ConversationContext.is_context_valid, with t the value of datetime.now()
is_context_valid(context, t) == t - context.timestamp < ValidityWindow

\* a store that updates the record in the slot field by field and leaves
\* its message list
update_context_fieldwise(ctxs, user_id, context) ==
    [ctxs EXCEPT ![user_id] =
        IF @.some
        THEN Some([context EXCEPT
                      !.last_messages = ctxs[user_id].val.last_messages])
        ELSE Some(context)]

\* a store that keeps the creation time of the record in the slot
update_context_keeping_time(ctxs, user_id, context) ==
    [ctxs EXCEPT ![user_id] =
        IF @.some
        THEN Some([context EXCEPT !.timestamp = ctxs[user_id].val.timestamp])
        ELSE Some(context)]

\* an update that also drops the other users' expired contexts
update_context_pruning(ctxs, user_id, context) ==
    [u \in DOMAIN ctxs |->
        IF u = user_id THEN Some(context)
        ELSE IF ctxs[u].some
                /\ context.timestamp - ctxs[u].val.timestamp >= ValidityWindow
        THEN Absent
        ELSE ctxs[u]]

\* self.contexts[user_id] = context
update_context(ctxs, user_id, context) ==
    [ctxs EXCEPT ![user_id] = Some(context)]

\* a lookup that falls back on any user's valid context
get_context_any_user(ctxs, user_id, t) ==
    LET valid == {u \in DOMAIN ctxs :
                     ctxs[u].some /\ is_context_valid(ctxs[u].val, t)}
    IN  IF user_id \in valid THEN ctxs[user_id]
        ELSE IF valid # {} THEN ctxs[CHOOSE u \in valid : TRUE]
        ELSE Absent

\* ConversationStateManager.get_context
get_context(ctxs, user_id, t) ==
    LET context == ctxs[user_id]
    IN  IF context.some /\ is_context_valid(context.val, t)
        THEN context
        ELSE Absent

\* ConversationStateManager.extract_summary_section
extract_summary_section(ctxs, user_id, section_type, t) ==
    LET context == get_context(ctxs, user_id, t)
    IN  IF ~context.some \/ ~dict_truthy(context.val.last_summary)
        THEN Absent
        ELSE LET summary_text == context.val.last_summary.text
             IN  IF summary_text = << >> THEN Absent
                 ELSE try_headers(summary_text,
                                  section_headers(section_type), 1)

(***************************************************************************)
(* The service calls of handle_message                                     *)
(***************************************************************************)
\* SlackService.get_channel_messages / get_thread_messages
get_messages(reply) ==
    CASE reply.kind = "ok"              -> Returned(Some(reply.messages))
      [] reply.kind = "not_ok"          -> Returned(Absent)
      [] reply.kind = "slack_api_error" -> Returned(Absent)
      [] OTHER                          -> RaisedError

\* bool(messages) of an optional list
messages_truthy(messages) == messages.some /\ messages.val # << >>

\* GeminiService.generate_summary
generate_summary(messages, channel_name, reply) ==
    IF messages = << >> THEN Returned(Absent)
    ELSE IF reply.kind = "raise" THEN Returned(Absent)
    ELSE Returned(Some(SummaryDict(reply.text)))

\* generate_focused_summary without its try/except
generate_focused_summary_unguarded(messages, focus_type, context, reply) ==
    IF messages = << >> THEN Returned(Absent)
    ELSE IF reply.kind = "raise" THEN RaisedError
    ELSE Returned(Some(SummaryDict(reply.text)))

\* GeminiService.generate_focused_summary
generate_focused_summary(messages, focus_type, context, reply) ==
    IF messages = << >> THEN Returned(Absent)
    ELSE IF reply.kind = "raise" THEN Returned(Absent)
    ELSE Returned(Some(SummaryDict(reply.text)))

(***************************************************************************)
(* State                                                                   *)
(***************************************************************************)
VARIABLES
    contexts,   \* ConversationStateManager.contexts: user -> optional context
    now,        \* datetime.now(), in minutes
    req,        \* per worker thread: the handle_message call it is running
    events,     \* the number of events taken so far
    input,      \* the argument of the function under study
    output      \* its result, once it has returned

vars == <<contexts, now, req, events, input, output>>

\* the argument and result of the function under study
study == <<input, output>>

\* a worker thread with no call in progress
IdleReq ==
    [pc            |-> "idle",
     user          |-> None,
     channel_id    |-> None,
     thread_ts     |-> None,
     intent        |-> None,
     channel_name  |-> None,
     section_type  |-> None,
     messages      |-> << >>,
     summary       |-> Absent,
     new_context   |-> Absent,
     context       |-> Absent,
     reply         |-> None,
     calls         |-> 0,
     call_args     |-> Absent,
     wrote         |-> FALSE,
     replaced      |-> None,
     outcome       |-> None,
     raised        |-> FALSE,
     response      |-> Absent]

\* the locals no step reads once the call has ended
EndOfCall(rq) ==
    [rq EXCEPT !.pc = "done", !.channel_id = None, !.thread_ts = None,
               !.channel_name = None, !.messages = << >>,
               !.summary = Absent, !.new_context = Absent]

\* handle_message returns response
Finish(rq, outcome, response) ==
    [EndOfCall(rq) EXCEPT !.outcome = outcome, !.response = Some(response)]

\* an error leaves handle_message
FinishRaised(rq, outcome) ==
    [EndOfCall(rq) EXCEPT !.outcome = outcome, !.raised = TRUE]

Init ==
    /\ contexts = [u \in Users |-> Absent]
    /\ now = 0
    /\ req = [r \in Requests |-> IdleReq]
    /\ events = 0
    /\ input = Absent
    /\ output = Absent

\* the minutes at which the clock is read: the start, the last minute of the
\* validity window that starts there, and every minute from its end on
ClockInstants == {0, ValidityWindow - 1} \cup (ValidityWindow .. MaxTime)

\* the clock advances
Tick ==
    /\ \E t \in ClockInstants : t > now /\ now' = t
    /\ UNCHANGED <<contexts, req, events, study>>

(***************************************************************************)
(* ConversationHandler.handle_message, step by step.  A step holds at most *)
(* one access to the store or the clock; the statements around it that     *)
(* touch only the call's locals and the outside services belong to it.     *)
(***************************************************************************)
\* the response when no messages were fetched
no_messages_response(intent) ==
    FixedResp(IF intent = "channel_summary" THEN CouldntFetchChannelMsg
                                            ELSE CouldntFetchThreadMsg)

\* get_channel_messages / get_thread_messages and the check of its result
fetch_messages(rq, reply) ==
    LET res == get_messages(reply)
    IN  IF res.raised THEN FinishRaised(rq, "fetch_raised")
        ELSE IF ~messages_truthy(res.value)
        THEN Finish(rq, "fetch_failed", no_messages_response(rq.intent))
        ELSE [rq EXCEPT !.pc = "gen_summary", !.messages = res.value.val]

\* context = get_context(user_id), and "not context"
lookup_context(rq, ctxs, t) ==
    LET context == get_context(ctxs, rq.user, t)
    IN  IF ~context.some
        THEN Finish(rq, "need_context", FixedResp(NeedContextMsg))
        ELSE [rq EXCEPT !.pc = "check_context", !.context = context]

\* the branch taken on the recognized intent, up to its first wait
dispatch(rq, intent_data, reply, ctxs, t) ==
    CASE intent_data.intent = "greeting" ->
            Finish(rq, "greeting", FixedResp(GreetingMsg))
      [] intent_data.intent = "channel_summary" ->
            fetch_messages([rq EXCEPT !.channel_name = intent_data.channel],
                           reply)
      [] intent_data.intent = "thread_summary" ->
            IF rq.thread_ts = None
            THEN Finish(rq, "no_thread_ts", FixedResp(NeedThreadMsg))
            ELSE fetch_messages([rq EXCEPT !.channel_name = "thread"], reply)
      [] intent_data.intent = "follow_up" ->
            lookup_context(rq, ctxs, t)
      [] intent_data.intent = "feedback" ->
            Finish(rq, "feedback", FixedResp(FeedbackMsg))
      [] intent_data.intent = "help" ->
            Finish(rq, "help", FixedResp(HelpMsg))
      [] OTHER ->
            Finish(rq, "unknown", FixedResp(NeedContextMsg))

\* a worker thread takes an event and runs handle_message up to the call of
\* generate_summary, or up to the context's second validity check
HandleMessage(r) ==
    /\ req[r].pc = "idle"
    /\ events < MaxEvents
    /\ events' = events + 1
    /\ \E ev \in Events :
          \E reply \in FetchReplies(ev.intent_data.intent) :
             LET rq == [IdleReq EXCEPT
                           !.user = ev.user,
                           !.channel_id = ev.channel,
                           !.thread_ts = ev.thread_ts,
                           !.intent = ev.intent_data.intent,
                           !.section_type = ev.intent_data.section_type]
             IN  req' = [req EXCEPT ![r] =
                            dispatch(rq, ev.intent_data, reply, contexts, now)]
    /\ UNCHANGED <<contexts, now, study>>

\* arguments of update_context without the messages that were summarized
update_args_without_messages(rq, summary) ==
    [channel_name |-> rq.channel_name,
     channel_id   |-> rq.channel_id,
     summary      |-> summary,
     messages     |-> << >>,
     thread_ts    |-> IF rq.intent = "thread_summary" THEN rq.thread_ts
                                                      ELSE None]

\* the arguments handle_message gives update_context
update_args(rq, summary) ==
    [channel_name |-> rq.channel_name,
     channel_id   |-> rq.channel_id,
     summary      |-> summary,
     messages     |-> rq.messages,
     thread_ts    |-> IF rq.intent = "thread_summary" THEN rq.thread_ts
                                                      ELSE None]

\* update_context, first half: the new ConversationContext is built
new_context(rq, summary, t) ==
    LET a == update_args(rq, summary)
    IN  [rq EXCEPT !.pc = "store_context",
                   !.summary = Some(summary),
                   !.new_context =
                       Some(ConversationContext(a.channel_name, a.channel_id,
                                                a.summary, a.messages,
                                                a.thread_ts, t))]

\* generate_summary returns; on a summary the new context is built
GenerateSummary(r) ==
    /\ req[r].pc = "gen_summary"
    /\ \E reply \in ModelReplies :
          LET rq  == req[r]
              res == generate_summary(rq.messages, rq.channel_name, reply)
          IN  req' = [req EXCEPT ![r] =
                  IF res.raised THEN FinishRaised(rq, "gen_raised")
                  ELSE IF res.value.some /\ dict_truthy(res.value.val)
                  THEN new_context(rq, res.value.val, now)
                  ELSE Finish(rq, "gen_failed",
                              FixedResp(TroubleGeneratingMsg))]
    /\ UNCHANGED <<contexts, now, events, study>>

\* what a store finds in the user's slot (kept for the record of the run)
slot_state(ctxs, user_id, t) ==
    IF ~ctxs[user_id].some THEN "missing"
    ELSE IF is_context_valid(ctxs[user_id].val, t) THEN "valid"
    ELSE "expired"

\* a store that waits, under a lock of the whole store that every handler
\* keeps during its summarizer call
StoreContextExclusive(r) ==
    /\ req[r].pc = "store_context"
    /\ \A r2 \in Requests \ {r} :
          req[r2].pc \notin {"gen_summary", "gen_focused"}
    /\ contexts' = update_context(contexts, req[r].user,
                                  req[r].new_context.val)
    /\ req' = [req EXCEPT ![r] =
                  Finish([req[r] EXCEPT !.wrote = TRUE],
                         "summarized",
                         get_text(req[r].summary.val, SorryTroubleMsg))]
    /\ UNCHANGED <<now, events, study>>

\* update_context, second half: the context is stored; the summary is returned
StoreContext(r) ==
    /\ req[r].pc = "store_context"
    /\ contexts' = update_context(contexts, req[r].user,
                                  req[r].new_context.val)
    /\ req' = [req EXCEPT ![r] =
                  Finish([req[r] EXCEPT
                             !.wrote = TRUE,
                             !.replaced =
                                 slot_state(contexts, req[r].user, now)],
                         "summarized",
                         get_text(req[r].summary.val, SorryTroubleMsg))]
    /\ UNCHANGED <<now, events, study>>

\* "not context.is_context_valid()", and the check of section_type
CheckContext(r) ==
    /\ req[r].pc = "check_context"
    /\ LET rq == req[r]
       IN  req' = [req EXCEPT ![r] =
               IF ~is_context_valid(rq.context.val, now)
               THEN Finish(rq, "need_context", FixedResp(NeedContextMsg))
               ELSE IF rq.section_type = None
               THEN Finish(rq, "need_section", FixedResp(NotSureMsg))
               ELSE [rq EXCEPT !.pc = "extract"]]
    /\ UNCHANGED <<contexts, now, events, study>>

\* the check of the result of extract_summary_section
after_extract(rq, section_content) ==
    IF section_content.some /\ section_content.val # << >>
    THEN Finish(rq, "found",
                [prefix |-> FoundPrefix, body |-> section_content.val])
    ELSE [rq EXCEPT !.pc = "gen_focused"]

\* an extraction whose lookup evicts the context it finds expired
ExtractSectionEvicting(r) ==
    /\ req[r].pc = "extract"
    /\ LET rq == req[r]
       IN  /\ req' = [req EXCEPT ![r] =
                  after_extract(rq,
                      extract_summary_section(contexts, rq.user,
                                              rq.section_type, now))]
           /\ contexts' =
                 IF get_context(contexts, rq.user, now).some THEN contexts
                 ELSE [contexts EXCEPT ![rq.user] = Absent]
    /\ UNCHANGED <<now, events, study>>

\* extract_summary_section and the check of its result
ExtractSection(r) ==
    /\ req[r].pc = "extract"
    /\ LET rq == req[r]
       IN  req' = [req EXCEPT ![r] =
               after_extract(rq,
                   extract_summary_section(contexts, rq.user,
                                           rq.section_type, now))]
    /\ UNCHANGED <<contexts, now, events, study>>

\* arguments that name the channel by its id
focused_args_by_id(context, section_type) ==
    [messages   |-> context.last_messages,
     focus_type |-> section_type,
     context    |-> context.channel_id]

\* the arguments handle_message gives generate_focused_summary
focused_args(context, section_type) ==
    [messages   |-> context.last_messages,
     focus_type |-> section_type,
     context    |-> context.channel_name]

\* the response for a result of generate_focused_summary
focused_response(focused_summary) ==
    IF focused_summary.some /\ dict_truthy(focused_summary.val)
    THEN get_text(focused_summary.val, CouldntFindMsg)
    ELSE FixedResp(TroubleAnalyzingMsg)

\* the call of generate_focused_summary and the return of its response
after_focused(rq, reply) ==
    LET a   == focused_args(rq.context.val, rq.section_type)
        res == generate_focused_summary(a.messages, a.focus_type,
                                        a.context, reply)
        rq1 == [rq EXCEPT !.calls = @ + 1,
                          !.call_args = Some(a),
                          !.reply = reply.kind]
    IN  IF res.raised THEN FinishRaised(rq1, "regen_raised")
        ELSE Finish(rq1,
                    IF res.value.some THEN "regenerated" ELSE "regen_failed",
                    focused_response(res.value))

\* a regeneration that stores its focused summary as the user's context
GenerateFocusedStoring(r) ==
    /\ req[r].pc = "gen_focused"
    /\ \E reply \in FocusedReplies :
          LET c == req[r].context.val
          IN  /\ req' = [req EXCEPT ![r] = after_focused(req[r], reply)]
              /\ contexts' =
                    IF reply.kind = "raise" THEN contexts
                    ELSE update_context(contexts, req[r].user,
                            ConversationContext(c.channel_name, c.channel_id,
                                                SummaryDict(reply.text),
                                                c.last_messages, c.thread_ts,
                                                now))
    /\ UNCHANGED <<now, events, study>>

\* generate_focused_summary returns and the response is built
GenerateFocused(r) ==
    /\ req[r].pc = "gen_focused"
    /\ \E reply \in FocusedReplies :
          req' = [req EXCEPT ![r] = after_focused(req[r], reply)]
    /\ UNCHANGED <<contexts, now, events, study>>

\* the worker thread is free for the next event
Return(r) ==
    /\ req[r].pc = "done"
    /\ req' = [req EXCEPT ![r] = IdleReq]
    /\ UNCHANGED <<contexts, now, events, study>>

Next ==
    \/ Tick
    \/ \E r \in Requests :
          \/ HandleMessage(r)
          \/ GenerateSummary(r)
          \/ StoreContext(r)
          \/ CheckContext(r)
          \/ ExtractSection(r)
          \/ GenerateFocused(r)
          \/ Return(r)

Spec == Init /\ [][Next]_vars

(***************************************************************************)
(* handle_message after a first summary: user U1 has asked for the summary *)
(* of the channel at minute 0 and the summary, with the section Key Topics *)
(* only, is stored.  events counts the events taken after it.              *)
(***************************************************************************)
\* the context update_context has stored for the first summary
FirstContext ==
    ConversationContext("general", "C1", SummaryDict(DocTopics),
                        ChannelMessages, None, 0)

AfterFirstSummary ==
    /\ contexts = update_context([u \in Users |-> Absent], "U1", FirstContext)
    /\ now = 0
    /\ req = [r \in Requests |-> IdleReq]
    /\ events = 0
    /\ input = Absent
    /\ output = Absent

FollowUpSpec == AfterFirstSummary /\ [][Next]_vars

(***************************************************************************)
(* The slash-command summary handlers.  They run on a ConversationHandler  *)
(* of their own and touch neither the store nor the clock: one step each.  *)
(***************************************************************************)
\* thread_params['type'] as parse_summary_command gives it
ThreadCommandTypes ==
    {"thread_message_link", "thread_latest", "thread_channel_ts", "thread"}

\* what the Slack client finds: the channel (and its latest thread), and the
\* messages fetched
SlashLookups ==
    [found : BOOLEAN, messages : {<< >>, ThreadMessages, ChannelMessages}]

NoThreadMessagesMsg ==
    ":information_source: No messages found in the specified thread."

ChannelNotFoundMsg == ":x: Channel not found."

InvalidThreadCommandMsg == ":x: Invalid thread command format."

NoChannelMessagesMsg ==
    ":information_source: No messages found in the last 24 hours."

\* the summaries summarize_thread and summarize_messages return
SlashSummaries == {DocContributors, DocTopics}

\* the call ends with the summary as the text of its response
slash_summarized(rq, summary) ==
    Finish(rq, "slash_summarized", TextResp(summary))

\* ConversationHandler._handle_thread_command
handle_thread_command(rq, type, lookup, summary) ==
    IF type = "thread"
    THEN Finish(rq, "slash_invalid", FixedResp(InvalidThreadCommandMsg))
    ELSE IF type # "thread_message_link" /\ ~lookup.found
    THEN Finish(rq, "slash_not_found", FixedResp(ChannelNotFoundMsg))
    ELSE IF lookup.messages = << >>
    THEN Finish(rq, "slash_no_messages", FixedResp(NoThreadMessagesMsg))
    ELSE slash_summarized(rq, summary)

\* ConversationHandler._handle_channel_summary
handle_channel_summary(rq, lookup, summary) ==
    IF ~lookup.found
    THEN Finish(rq, "slash_not_found", FixedResp(ChannelNotFoundMsg))
    ELSE IF lookup.messages = << >>
    THEN Finish(rq, "slash_no_messages", FixedResp(NoChannelMessagesMsg))
    ELSE slash_summarized(rq, summary)

\* a worker thread runs a "/summary thread ..." command of a user
HandleThreadCommand(r) ==
    /\ req[r].pc = "idle"
    /\ events < MaxEvents
    /\ events' = events + 1
    /\ \E u \in Users, type \in ThreadCommandTypes,
          lookup \in SlashLookups, summary \in SlashSummaries :
          req' = [req EXCEPT ![r] =
                     handle_thread_command(
                         [IdleReq EXCEPT !.user = u,
                                         !.intent = "slash_thread"],
                         type, lookup, summary)]
    /\ UNCHANGED <<contexts, now, study>>

\* a worker thread runs the channel summary handler for a user
HandleChannelSummary(r) ==
    /\ req[r].pc = "idle"
    /\ events < MaxEvents
    /\ events' = events + 1
    /\ \E u \in Users, lookup \in SlashLookups, summary \in SlashSummaries :
          req' = [req EXCEPT ![r] =
                     handle_channel_summary(
                         [IdleReq EXCEPT !.user = u,
                                         !.intent = "slash_channel"],
                         lookup, summary)]
    /\ UNCHANGED <<contexts, now, study>>

\* messages and slash commands arrive in any order
SlashNext ==
    \/ Next
    \/ \E r \in Requests :
          \/ HandleThreadCommand(r)
          \/ HandleChannelSummary(r)

SlashSpec == Init /\ [][SlashNext]_vars

(***************************************************************************)
(* IntentRecognizer.  A regex is the sequence of its alternatives, each a  *)
(* sequence of atoms: a character, or one of                               *)
(*   "start"  ^            "end"    $                                      *)
(*   "ws+"    \s+          "ws!*"   [\s!]*                                 *)
(*   "apos?"  '?           "hash?"  [#]?                                   *)
(*   "word+"  (?P<channel>[\w-]+)                                          *)
(***************************************************************************)
LowerCase ==
    <<"a", "b", "c", "d", "e", "f", "g", "h", "i", "j", "k", "l", "m",
      "n", "o", "p", "q", "r", "s", "t", "u", "v", "w", "x", "y", "z">>

UpperCase ==
    <<"A", "B", "C", "D", "E", "F", "G", "H", "I", "J", "K", "L", "M",
      "N", "O", "P", "Q", "R", "S", "T", "U", "V", "W", "X", "Y", "Z">>

Digits == {"0", "1", "2", "3", "4", "5", "6", "7", "8", "9"}

\* the characters of [\w-]
ChannelChars ==
    {LowerCase[i] : i \in DOMAIN LowerCase}
       \cup {UpperCase[i] : i \in DOMAIN UpperCase}
       \cup Digits \cup {"_", "-"}

\* s.lower()
lower(s) ==
    [i \in DOMAIN s |->
        IF \E k \in DOMAIN UpperCase : UpperCase[k] = s[i]
        THEN LowerCase[CHOOSE k \in DOMAIN UpperCase : UpperCase[k] = s[i]]
        ELSE s[i]]

\* the number of characters of the class that follow each other from s[i] on
Run(s, i, class) ==
    LET stops == {j \in i .. Len(s) : s[j] \notin class}
    IN  IF stops = {} THEN Len(s) + 1 - i
        ELSE (CHOOSE j \in stops : \A j2 \in stops : j <= j2) - i

\* no match; a match records where the channel group lies in the text
NoMatch == [ok |-> FALSE, from |-> 0, to |-> 0]

\* the atoms p[k], p[k+1], ... match the text s from s[i] on (every
\* repetition is greedy, and none can give back characters the next atom
\* could take)
RECURSIVE match_from(_, _, _, _, _, _)
match_from(p, k, s, i, from, to) ==
    IF k > Len(p) THEN [ok |-> TRUE, from |-> from, to |-> to]
    ELSE LET a    == p[k]
             here == i <= Len(s)
         IN  CASE a = "start" ->
                    IF i = 1 THEN match_from(p, k + 1, s, i, from, to)
                    ELSE NoMatch
               [] a = "end" ->
                    IF i = Len(s) + 1 \/ (i = Len(s) /\ s[i] = "\n")
                    THEN match_from(p, k + 1, s, i, from, to)
                    ELSE NoMatch
               [] a = "ws+" ->
                    LET n == Run(s, i, Whitespace)
                    IN  IF n = 0 THEN NoMatch
                        ELSE match_from(p, k + 1, s, i + n, from, to)
               [] a = "ws!*" ->
                    match_from(p, k + 1, s,
                               i + Run(s, i, Whitespace \cup {"!"}), from, to)
               [] a = "apos?" ->
                    match_from(p, k + 1, s,
                               IF here /\ s[i] = "'" THEN i + 1 ELSE i,
                               from, to)
               [] a = "hash?" ->
                    match_from(p, k + 1, s,
                               IF here /\ s[i] = "#" THEN i + 1 ELSE i,
                               from, to)
               [] a = "word+" ->
                    LET n == Run(s, i, ChannelChars)
                    IN  IF n = 0 THEN NoMatch
                        ELSE match_from(p, k + 1, s, i + n, i, i + n - 1)
               [] OTHER ->
                    IF here /\ s[i] = a
                    THEN match_from(p, k + 1, s, i + 1, from, to)
                    ELSE NoMatch

\* the regex matches the text s at s[i]: the match of its first alternative
\* that matches there
match_at(regex, s, i) ==
    LET hits == {k \in DOMAIN regex : match_from(regex[k], 1, s, i, 0, 0).ok}
    IN  IF hits = {} THEN NoMatch
        ELSE match_from(regex[CHOOSE k \in hits : \A k2 \in hits : k <= k2],
                        1, s, i, 0, 0)

\* re.match(regex, s)
re_match(regex, s) == match_at(regex, s, 1)

\* re.search(regex, s): the leftmost match
re_search(regex, s) ==
    LET hits == {i \in 1 .. Len(s) + 1 : match_at(regex, s, i).ok}
    IN  IF hits = {} THEN NoMatch
        ELSE match_at(regex, s, CHOOSE i \in hits : \A i2 \in hits : i <= i2)

\* IntentRecognizer.greeting_patterns: each regex the sequence of its
\* alternatives, each alternative a sequence of atoms
greeting_patterns ==
    <<<<<<"start", "h", "i", "ws!*", "end">>,
        <<"start", "h", "e", "l", "l", "o", "ws!*", "end">>,
        <<"start", "h", "e", "y", "ws!*", "end">>,
        <<"start", "g", "o", "o", "d", " ", "m", "o", "r", "n", "i", "n",
          "g", "ws!*", "end">>,
        <<"start", "g", "o", "o", "d", " ", "a", "f", "t", "e", "r", "n",
          "o", "o", "n", "ws!*", "end">>,
        <<"start", "g", "o", "o", "d", " ", "e", "v", "e", "n", "i", "n",
          "g", "ws!*", "end">>>>>>

\* IntentRecognizer.channel_summary_patterns
channel_summary_patterns ==
    <<<<<<"w", "h", "a", "t", "apos?", "s", "ws+", "h", "a", "p", "p", "e",
          "n", "i", "n", "g", "ws+", "i", "n", "ws+", "hash?", "word+">>>>,
      <<<<"s", "u", "m", "m", "a", "r", "i", "z", "e", "ws+", "hash?",
          "word+">>>>,
      <<<<"u", "p", "d", "a", "t", "e", "ws+", "o", "n", "ws+", "hash?",
          "word+">>>>,
      <<<<"w", "h", "a", "t", "apos?", "s", "ws+", "n", "e", "w", "ws+",
          "i", "n", "ws+", "hash?", "word+">>>>,
      <<<<"w", "h", "a", "t", "apos?", "s", "ws+", "g", "o", "i", "n", "g",
          "ws+", "o", "n", "ws+", "i", "n", "ws+", "hash?", "word+">>>>>>

\* IntentRecognizer.thread_summary_patterns
thread_summary_patterns ==
    <<<<<<"s", "u", "m", "m", "a", "r", "i", "z", "e", "ws+", "t", "h",
          "r", "e", "a", "d">>>>,
      <<<<"t", "h", "r", "e", "a", "d", "ws+", "s", "u", "m", "m", "a",
          "r", "y">>>>,
      <<<<"w", "h", "a", "t", "apos?", "s", "ws+", "h", "a", "p", "p", "e",
          "n", "i", "n", "g", "ws+", "i", "n", "ws+", "t", "h", "i", "s",
          "ws+", "t", "h", "r", "e", "a", "d">>>>,
      <<<<"w", "h", "a", "t", "apos?", "s", "ws+", "t", "h", "i", "s",
          "ws+", "t", "h", "r", "e", "a", "d", "ws+", "a", "b", "o", "u",
          "t">>>>>>

\* IntentRecognizer.follow_up_patterns['contributors']
follow_up_patterns_contributors ==
    <<<<<<"w", "h", "o", "ws+", "i", "s", "ws+", "a", "c", "t", "i", "v",
          "e">>,
        <<"w", "h", "o", "ws+", "i", "s", "ws+", "c", "o", "n", "t", "r",
          "i", "b", "u", "t", "i", "n", "g">>,
        <<"w", "h", "o", "ws+", "i", "s", "ws+", "m", "o", "s", "t", "ws+",
          "a", "c", "t", "i", "v", "e">>,
        <<"w", "h", "o", "ws+", "i", "s", "ws+", "m", "o", "s", "t", "ws+",
          "c", "o", "n", "t", "r", "i", "b", "u", "t", "i", "n", "g">>,
        <<"w", "h", "o", "ws+", "i", "s", "ws+", "t", "h", "e", "ws+", "a",
          "c", "t", "i", "v", "e">>,
        <<"w", "h", "o", "ws+", "i", "s", "ws+", "t", "h", "e", "ws+", "c",
          "o", "n", "t", "r", "i", "b", "u", "t", "i", "n", "g">>,
        <<"w", "h", "o", "ws+", "i", "s", "ws+", "t", "h", "e", "ws+", "m",
          "o", "s", "t", "ws+", "a", "c", "t", "i", "v", "e">>,
        <<"w", "h", "o", "ws+", "i", "s", "ws+", "t", "h", "e", "ws+", "m",
          "o", "s", "t", "ws+", "c", "o", "n", "t", "r", "i", "b", "u",
          "t", "i", "n", "g">>,
        <<"w", "h", "o", "ws+", "a", "r", "e", "ws+", "a", "c", "t", "i",
          "v", "e">>,
        <<"w", "h", "o", "ws+", "a", "r", "e", "ws+", "c", "o", "n", "t",
          "r", "i", "b", "u", "t", "i", "n", "g">>,
        <<"w", "h", "o", "ws+", "a", "r", "e", "ws+", "m", "o", "s", "t",
          "ws+", "a", "c", "t", "i", "v", "e">>,
        <<"w", "h", "o", "ws+", "a", "r", "e", "ws+", "m", "o", "s", "t",
          "ws+", "c", "o", "n", "t", "r", "i", "b", "u", "t", "i", "n",
          "g">>,
        <<"w", "h", "o", "ws+", "a", "r", "e", "ws+", "t", "h", "e", "ws+",
          "a", "c", "t", "i", "v", "e">>,
        <<"w", "h", "o", "ws+", "a", "r", "e", "ws+", "t", "h", "e", "ws+",
          "c", "o", "n", "t", "r", "i", "b", "u", "t", "i", "n", "g">>,
        <<"w", "h", "o", "ws+", "a", "r", "e", "ws+", "t", "h", "e", "ws+",
          "m", "o", "s", "t", "ws+", "a", "c", "t", "i", "v", "e">>,
        <<"w", "h", "o", "ws+", "a", "r", "e", "ws+", "t", "h", "e", "ws+",
          "m", "o", "s", "t", "ws+", "c", "o", "n", "t", "r", "i", "b",
          "u", "t", "i", "n", "g">>,
        <<"w", "h", "o", "ws+", "w", "e", "r", "e", "ws+", "a", "c", "t",
          "i", "v", "e">>,
        <<"w", "h", "o", "ws+", "w", "e", "r", "e", "ws+", "c", "o", "n",
          "t", "r", "i", "b", "u", "t", "i", "n", "g">>,
        <<"w", "h", "o", "ws+", "w", "e", "r", "e", "ws+", "m", "o", "s",
          "t", "ws+", "a", "c", "t", "i", "v", "e">>,
        <<"w", "h", "o", "ws+", "w", "e", "r", "e", "ws+", "m", "o", "s",
          "t", "ws+", "c", "o", "n", "t", "r", "i", "b", "u", "t", "i",
          "n", "g">>,
        <<"w", "h", "o", "ws+", "w", "e", "r", "e", "ws+", "t", "h", "e",
          "ws+", "a", "c", "t", "i", "v", "e">>,
        <<"w", "h", "o", "ws+", "w", "e", "r", "e", "ws+", "t", "h", "e",
          "ws+", "c", "o", "n", "t", "r", "i", "b", "u", "t", "i", "n",
          "g">>,
        <<"w", "h", "o", "ws+", "w", "e", "r", "e", "ws+", "t", "h", "e",
          "ws+", "m", "o", "s", "t", "ws+", "a", "c", "t", "i", "v", "e">>,
        <<"w", "h", "o", "ws+", "w", "e", "r", "e", "ws+", "t", "h", "e",
          "ws+", "m", "o", "s", "t", "ws+", "c", "o", "n", "t", "r", "i",
          "b", "u", "t", "i", "n", "g">>>>,
      <<<<"a", "c", "t", "i", "v", "e", "ws+", "c", "o", "n", "t", "r",
          "i", "b", "u", "t", "o", "r", "s">>>>,
      <<<<"w", "h", "o", "ws+", "c", "o", "n", "t", "r", "i", "b", "u",
          "t", "e", "d">>>>,
      <<<<"w", "h", "o", "apos?", "s", "ws+", "a", "c", "t", "i", "v", "e">>>>,
      <<<<"w", "h", "o", "apos?", "s", "ws+", "p", "a", "r", "t", "i", "c",
          "i", "p", "a", "t", "i", "n", "g">>>>>>

\* IntentRecognizer.follow_up_patterns['urgent']
follow_up_patterns_urgent ==
    <<<<<<"u", "r", "g", "e", "n", "t", "ws+", "i", "t", "e", "m", "s">>>>,
      <<<<"w", "h", "a", "t", "apos?", "s", "ws+", "u", "r", "g", "e", "n",
          "t">>>>,
      <<<<"w", "h", "a", "t", "ws+", "n", "e", "e", "d", "s", "ws+", "a",
          "t", "t", "e", "n", "t", "i", "o", "n">>>>,
      <<<<"w", "h", "a", "t", "apos?", "s", "ws+", "i", "m", "p", "o", "r",
          "t", "a", "n", "t">>>>,
      <<<<"w", "h", "a", "t", "ws+", "a", "r", "e", "ws+", "t", "h", "e",
          "ws+", "u", "r", "g", "e", "n", "t", "ws+", "i", "t", "e", "m",
          "s">>>>,
      <<<<"w", "h", "a", "t", "apos?", "s", "ws+", "c", "r", "i", "t", "i",
          "c", "a", "l">>>>>>

\* IntentRecognizer.follow_up_patterns['topics']
follow_up_patterns_topics ==
    <<<<<<"w", "h", "a", "t", "ws+", "t", "o", "p", "i", "c", "s", "ws+",
          "d", "i", "s", "c", "u", "s", "s", "e", "d">>,
        <<"w", "h", "a", "t", "ws+", "w", "a", "s", "ws+", "d", "i", "s",
          "c", "u", "s", "s", "e", "d">>,
        <<"w", "h", "a", "t", "ws+", "w", "e", "r", "e", "ws+", "d", "i",
          "s", "c", "u", "s", "s", "e", "d">>>>,
      <<<<"m", "a", "i", "n", "ws+", "t", "o", "p", "i", "c", "s">>>>,
      <<<<"k", "e", "y", "ws+", "t", "o", "p", "i", "c", "s">>>>,
      <<<<"w", "h", "a", "t", "ws+", "d", "i", "d", "ws+", "t", "h", "e",
          "y", "ws+", "t", "a", "l", "k", "ws+", "a", "b", "o", "u", "t">>>>,
      <<<<"w", "h", "a", "t", "apos?", "s", "ws+", "b", "e", "i", "n", "g",
          "ws+", "d", "i", "s", "c", "u", "s", "s", "e", "d">>>>>>

\* IntentRecognizer.follow_up_patterns['decisions']
follow_up_patterns_decisions ==
    <<<<<<"w", "h", "a", "t", "ws+", "d", "e", "c", "i", "s", "i", "o",
          "n", "s", "ws+", "w", "e", "r", "e", "ws+", "m", "a", "d", "e">>,
        <<"w", "h", "a", "t", "ws+", "a", "c", "t", "i", "o", "n", "s",
          "ws+", "w", "e", "r", "e", "ws+", "m", "a", "d", "e">>>>,
      <<<<"a", "n", "y", "ws+", "d", "e", "c", "i", "s", "i", "o", "n",
          "s">>>>,
      <<<<"w", "h", "a", "t", "ws+", "w", "a", "s", "ws+", "d", "e", "c",
          "i", "d", "e", "d">>>>,
      <<<<"w", "h", "a", "t", "ws+", "a", "r", "e", "ws+", "t", "h", "e",
          "ws+", "n", "e", "x", "t", "ws+", "s", "t", "e", "p", "s">>>>,
      <<<<"a", "c", "t", "i", "o", "n", "ws+", "i", "t", "e", "m", "s">>>>>>

\* IntentRecognizer.follow_up_patterns['questions']
follow_up_patterns_questions ==
    <<<<<<"w", "h", "a", "t", "ws+", "q", "u", "e", "s", "t", "i", "o",
          "n", "s", "ws+", "w", "e", "r", "e", "ws+", "a", "s", "k", "e",
          "d">>>>,
      <<<<"o", "p", "e", "n", "ws+", "q", "u", "e", "s", "t", "i", "o",
          "n", "s">>>>,
      <<<<"w", "h", "a", "t", "ws+", "n", "e", "e", "d", "s", "ws+", "a",
          "n", "s", "w", "e", "r", "s">>>>,
      <<<<"u", "n", "r", "e", "s", "o", "l", "v", "e", "d", "ws+", "q",
          "u", "e", "s", "t", "i", "o", "n", "s">>>>,
      <<<<"w", "h", "a", "t", "apos?", "s", "ws+", "u", "n", "c", "l", "e",
          "a", "r">>>>>>

\* the groups of follow_up_patterns, in the order of the dict
FollowUpGroups == <<"contributors", "urgent", "topics", "decisions", "questions">>

\* IntentRecognizer.follow_up_patterns
follow_up_patterns ==
    [contributors |-> follow_up_patterns_contributors,
     urgent |-> follow_up_patterns_urgent,
     topics |-> follow_up_patterns_topics,
     decisions |-> follow_up_patterns_decisions,
     questions |-> follow_up_patterns_questions]


\* the first regex of the list that is found in the text, with its match
first_search(patterns, t) ==
    LET hits == {k \in DOMAIN patterns : re_search(patterns[k], t).ok}
    IN  IF hits = {} THEN NoMatch
        ELSE re_search(patterns[CHOOSE k \in hits : \A k2 \in hits : k <= k2],
                       t)

\* a greeting check that lacks the [\s!]*$ at the end of the pattern
greeting_rule_prefix(t) ==
    IF \E k \in DOMAIN greeting_patterns :
          \E a \in DOMAIN greeting_patterns[k] :
             LET p == greeting_patterns[k][a]
             IN  match_from(SubSeq(p, 1, Len(p) - 2), 1, t, 1, 0, 0).ok
    THEN Some([intent |-> "greeting"])
    ELSE Absent

\* recognize_intent: "Check for greetings"
greeting_rule(t) ==
    IF \E k \in DOMAIN greeting_patterns : re_match(greeting_patterns[k], t).ok
    THEN Some([intent |-> "greeting"])
    ELSE Absent

\* a channel check whose group takes the '#' with the token
channel_rule_with_hash(t) ==
    LET match == first_search(channel_summary_patterns, t)
        from  == IF match.from > 1 /\ t[match.from - 1] = "#"
                 THEN match.from - 1 ELSE match.from
    IN  IF match.ok
        THEN Some([intent  |-> "channel_summary",
                   channel |-> SubSeq(t, from, match.to)])
        ELSE Absent

\* recognize_intent: "Check for channel summaries"
channel_rule(t) ==
    LET match == first_search(channel_summary_patterns, t)
    IN  IF match.ok
        THEN Some([intent  |-> "channel_summary",
                   channel |-> SubSeq(t, match.from, match.to)])
        ELSE Absent

\* recognize_intent: "Check for thread summaries"
thread_rule(t) ==
    IF first_search(thread_summary_patterns, t).ok
    THEN Some([intent |-> "thread_summary"])
    ELSE Absent

\* the groups of follow_up_patterns that have a pattern found in the text,
\* by their place in FollowUpGroups
follow_up_hits(t) ==
    {k \in DOMAIN FollowUpGroups :
        first_search(follow_up_patterns[FollowUpGroups[k]], t).ok}

\* a follow-up check in which a later group replaces an earlier one
follow_up_rule_last_group(t) ==
    LET hits == follow_up_hits(t)
    IN  IF hits = {} THEN Absent
        ELSE Some([intent       |-> "follow_up",
                   section_type |->
                       FollowUpGroups[CHOOSE k \in hits :
                                         \A k2 \in hits : k >= k2]])

\* recognize_intent: "Check for follow-up questions"
follow_up_rule(t) ==
    LET hits == follow_up_hits(t)
    IN  IF hits = {} THEN Absent
        ELSE Some([intent       |-> "follow_up",
                   section_type |->
                       FollowUpGroups[CHOOSE k \in hits :
                                         \A k2 \in hits : k <= k2]])

FeedbackWord ==
    <<"f", "e", "e", "d", "b", "a", "c", "k">>

\* a feedback check with the operands of "in" exchanged
feedback_rule_reversed(t) ==
    IF Contains(FeedbackWord, t) THEN Some([intent |-> "feedback"]) ELSE Absent

\* recognize_intent: "Check for feedback"
feedback_rule(t) ==
    IF Contains(t, FeedbackWord) THEN Some([intent |-> "feedback"]) ELSE Absent

\* ["help", "what can you do", "how do you work"]
HelpTexts ==
    {<<"h", "e", "l", "p">>,
     <<"w", "h", "a", "t", " ", "c", "a", "n", " ", "y", "o", "u", " ",
       "d", "o">>,
     <<"h", "o", "w", " ", "d", "o", " ", "y", "o", "u", " ", "w", "o",
       "r", "k">>}

\* a help check that looks for the help phrases inside the text
help_rule_substring(t) ==
    IF \E h \in HelpTexts : Contains(t, h)
    THEN Some([intent |-> "help"])
    ELSE Absent

\* recognize_intent: "Check for help"
help_rule(t) ==
    IF t \in HelpTexts THEN Some([intent |-> "help"]) ELSE Absent

\* the result of the first rule of the sequence that has one, else UNKNOWN
cascade(rules) ==
    LET hits == {k \in DOMAIN rules : rules[k].some}
    IN  IF hits = {} THEN [intent |-> "unknown"]
        ELSE rules[CHOOSE k \in hits : \A k2 \in hits : k <= k2].val

\* a recognizer that checks for follow-up questions before channel summaries
recognize_intent_follow_up_first(text) ==
    LET t == Strip(lower(text))
    IN  cascade(<<greeting_rule(t), follow_up_rule(t), channel_rule(t),
                  thread_rule(t), feedback_rule(t), help_rule(t)>>)

\* IntentRecognizer.recognize_intent
recognize_intent(text) ==
    LET t == Strip(lower(text))
    IN  cascade(<<greeting_rule(t), channel_rule(t), thread_rule(t),
                  follow_up_rule(t), feedback_rule(t), help_rule(t)>>)

(***************************************************************************)
(* The texts recognize_intent is studied on                                *)
(***************************************************************************)
\* what a text starts with
TextPrefixes ==
    {<< >>,
     <<" ">>,
     <<"h", "e", "y", " ">>}

\* the phrases of a text
TextCores ==
    {<< >>,
     <<"h", "i">>,
     <<"H", "e", "l", "l", "o">>,
     <<"g", "o", "o", "d", " ", "m", "o", "r", "n", "i", "n", "g">>,
     <<"G", "o", "o", "d", " ", " ", "e", "v", "e", "n", "i", "n", "g">>,
     <<"s", "u", "m", "m", "a", "r", "i", "z", "e", " ", "#", "D", "e",
       "v", "-", "O", "p", "s">>,
     <<"w", "h", "a", "t", "'", "s", " ", "h", "a", "p", "p", "e", "n",
       "i", "n", "g", " ", "i", "n", " ", "g", "e", "n", "e", "r", "a",
       "l">>,
     <<"w", "h", "a", "t", "s", " ", "n", "e", "w", " ", "i", "n", " ",
       "#", "d", "e", "v">>,
     <<"u", "p", "d", "a", "t", "e", " ", "o", "n", " ", "d", "e", "v",
       "_", "1">>,
     <<"w", "h", "a", "t", "'", "s", " ", "g", "o", "i", "n", "g", " ",
       "o", "n", " ", "i", "n", " ", "#", "d", "e", "v">>,
     <<"s", "u", "m", "m", "a", "r", "i", "z", "e", " ", "t", "h", "r",
       "e", "a", "d">>,
     <<"t", "h", "r", "e", "a", "d", " ", "s", "u", "m", "m", "a", "r",
       "y">>,
     <<"w", "h", "a", "t", "'", "s", " ", "h", "a", "p", "p", "e", "n",
       "i", "n", "g", " ", "i", "n", " ", "t", "h", "i", "s", " ", "t",
       "h", "r", "e", "a", "d">>,
     <<"w", "h", "a", "t", "'", "s", " ", "t", "h", "i", "s", " ", "t",
       "h", "r", "e", "a", "d", " ", "a", "b", "o", "u", "t">>,
     <<"s", "u", "m", "m", "a", "r", "i", "z", "e", " ", "a", "c", "t",
       "i", "v", "e", " ", "c", "o", "n", "t", "r", "i", "b", "u", "t",
       "o", "r", "s">>,
     <<"w", "h", "o", " ", "c", "o", "n", "t", "r", "i", "b", "u", "t",
       "e", "d">>,
     <<"w", "h", "a", "t", "'", "s", " ", "u", "r", "g", "e", "n", "t">>,
     <<"k", "e", "y", " ", "t", "o", "p", "i", "c", "s">>,
     <<"a", "n", "y", " ", "d", "e", "c", "i", "s", "i", "o", "n", "s">>,
     <<"o", "p", "e", "n", " ", "q", "u", "e", "s", "t", "i", "o", "n",
       "s">>,
     <<"u", "r", "g", "e", "n", "t", " ", "i", "t", "e", "m", "s", " ",
       "a", "n", "d", " ", "w", "h", "o", " ", "c", "o", "n", "t", "r",
       "i", "b", "u", "t", "e", "d">>,
     <<"w", "h", "a", "t", " ", "w", "a", "s", " ", "d", "e", "c", "i",
       "d", "e", "d", " ", "o", "n", " ", "o", "p", "e", "n", " ", "q",
       "u", "e", "s", "t", "i", "o", "n", "s">>,
     <<"f", "e", "e", "d", "b", "a", "c", "k">>,
     <<"h", "e", "l", "p">>,
     <<"W", "h", "a", "t", " ", "c", "a", "n", " ", "y", "o", "u", " ",
       "d", "o">>,
     <<"h", "o", "w", " ", "d", "o", " ", "y", "o", "u", " ", "w", "o",
       "r", "k">>,
     <<"x", "y", "z">>}

\* what a text ends with
TextSuffixes ==
    {<< >>,
     <<"!">>,
     <<".">>,
     <<" ", "F", "e", "e", "d", "b", "a", "c", "k">>}

\* event.get('text', ''): the texts of the messages
IntentTexts ==
    {pre \o core \o suf :
        pre \in TextPrefixes, core \in TextCores, suf \in TextSuffixes}

\* a text arrives
ReceiveText ==
    /\ input.some => output.some
    /\ \E text \in IntentTexts : input' = Some(text)
    /\ output' = Absent
    /\ UNCHANGED <<contexts, now, req, events>>

\* intent_data = self.intent_recognizer.recognize_intent(text)
RecognizeIntent ==
    /\ input.some
    /\ ~output.some
    /\ output' = Some(recognize_intent(input.val))
    /\ UNCHANGED <<contexts, now, req, events, input>>

IntentNext == ReceiveText \/ RecognizeIntent

IntentSpec == Init /\ [][IntentNext]_vars

(***************************************************************************)
(* extract_summary_section on stored summary texts.  A summary text is     *)
(* stored in a user's context, and a section of it is asked for; input is  *)
(* the request and output the returned value.                              *)
(***************************************************************************)
\* the document of two sections with a bullet each
DocAliceBob ==
    <<"C", "o", "n", "t", "r", "i", "b", "u", "t", "o", "r", "s", "\n",
      "U+2022", " ", "A", "l", "i", "c", "e", ",", " ", "B", "o", "b", " ",
      "p", "a", "r", "t", "i", "c", "i", "p", "a", "t", "e", "d", ".", "\n",
      "\n", "N", "e", "e", "d", "s", " ", "I", "m", "m", "e", "d", "i", "a",
      "t", "e", " ", "A", "t", "t", "e", "n", "t", "i", "o", "n", " ",
      "U+1F6A8", "\n", "U+2022", " ", "F", "i", "x", " ", "t", "h", "e", " ",
      "b", "u", "i", "l", "d", ".">>

\* a section that is the last one, followed by the Summary Details marker
DocTrailingDetails ==
    <<"K", "e", "y", " ", "T", "o", "p", "i", "c", "s", "\n", "U+2022", " ",
      "T", ".", "\n", "\n", "S", "u", "m", "m", "a", "r", "y", " ", "D", "e",
      "t", "a", "i", "l", "s", "\n", "x">>

\* the marker inside a section that a later header ends
DocDetailsThenHeader ==
    <<"K", "e", "y", " ", "T", "o", "p", "i", "c", "s", "\n", "U+2022", " ",
      "T", ".", "\n", "S", "u", "m", "m", "a", "r", "y", " ", "D", "e", "t",
      "a", "i", "l", "s", "\n", "C", "o", "n", "t", "r", "i", "b", "u", "t",
      "o", "r", "s", "\n", "U+2022", " ", "A", ".">>

\* the same header twice
DocRepeatedHeader ==
    <<"C", "o", "n", "t", "r", "i", "b", "u", "t", "o", "r", "s", "\n",
      "U+2022", " ", "A", ".", "\n", "C", "o", "n", "t", "r", "i", "b", "u",
      "t", "o", "r", "s", "\n", "U+2022", " ", "B", ".">>

\* the marker before the only header
DocDetailsFirst ==
    <<"S", "u", "m", "m", "a", "r", "y", " ", "D", "e", "t", "a", "i", "l",
      "s", "\n", "S", "t", "a", "t", "u", "s", " ", "&", " ", "Q", "u", "e",
      "s", "t", "i", "o", "n", "s", "\n", "U+2022", " ", "Q", ".">>

\* two markers after the last header
DocTwoMarkers ==
    <<"D", "e", "c", "i", "s", "i", "o", "n", "s", " ", "&", " ", "A", "c",
      "t", "i", "o", "n", "s", "\n", "U+2022", " ", "D", ".", "\n", "S", "u",
      "m", "m", "a", "r", "y", " ", "D", "e", "t", "a", "i", "l", "s", " ",
      "x", " ", "S", "u", "m", "m", "a", "r", "y", " ", "D", "e", "t", "a",
      "i", "l", "s">>

\* a header directly followed by another header
DocAdjacentHeaders ==
    <<"C", "o", "n", "t", "r", "i", "b", "u", "t", "o", "r", "s", "K", "e",
      "y", " ", "T", "o", "p", "i", "c", "s", "\n", "U+2022", " ", "T", ".",
      " ">>

\* a text without any header
DocNoHeader ==
    <<"N", "o", " ", "a", "c", "t", "i", "v", "i", "t", "y", ".">>

StoredTexts ==
    {DocAliceBob, DocTrailingDetails, DocDetailsThenHeader, DocRepeatedHeader,
     DocDetailsFirst, DocTwoMarkers, DocAdjacentHeaders, DocNoHeader,
     DocContributors, DocTopics, DocEmpty}

\* the section types asked for: the five known ones and an unknown one
AskedSectionTypes == SectionTypes \cup {"summary"}

\* update_context with a summary whose text is one of the stored texts
StoreSummaryText(u) ==
    /\ \E d \in StoredTexts :
          contexts' = update_context(contexts, u,
                          ConversationContext("general", "C1", SummaryDict(d),
                                              ChannelMessages, None, now))
    /\ input' = Absent
    /\ output' = Absent
    /\ UNCHANGED <<now, req, events>>

\* extract_summary_section(user_id, section_type)
ExtractSummarySection(u) ==
    /\ \E section_type \in AskedSectionTypes :
          /\ input' = Some([user_id |-> u, section_type |-> section_type])
          /\ output' = Some(extract_summary_section(contexts, u,
                                                    section_type, now))
    /\ UNCHANGED <<contexts, now, req, events>>

ExtractNext ==
    \E u \in Users : StoreSummaryText(u) \/ ExtractSummarySection(u)

ExtractSpec == Init /\ [][ExtractNext]_vars

(***************************************************************************)
(* extract_summary_section on contexts that may be missing or expired and  *)
(* on summaries that may be empty                                          *)
(***************************************************************************)
\* the empty dict {}
EmptyDict == << >>

\* the summaries stored: one per stored text, and the empty dict
StoredSummaries == {SummaryDict(d) : d \in StoredTexts} \cup {EmptyDict}

\* update_context with one of the stored summaries
StoreSummary(u) ==
    /\ \E summary \in StoredSummaries :
          contexts' = update_context(contexts, u,
                          ConversationContext("general", "C1", summary,
                                              ChannelMessages, None, now))
    /\ input' = Absent
    /\ output' = Absent
    /\ UNCHANGED <<now, req, events>>

\* the clock advances between two calls
TickBetweenCalls ==
    /\ \E t \in ClockInstants : t > now /\ now' = t
    /\ input' = Absent
    /\ output' = Absent
    /\ UNCHANGED <<contexts, req, events>>

ExtractTimedNext ==
    \/ TickBetweenCalls
    \/ \E u \in Users : StoreSummary(u) \/ ExtractSummarySection(u)

ExtractTimedSpec == Init /\ [][ExtractTimedNext]_vars

(***************************************************************************)
(* ConversationStateManager.get_section_from_summary, the extraction that  *)
(* keeps the bullet lines only                                             *)
(***************************************************************************)
Bullet == "U+2022"

NeedsImmediateAttention ==
    <<"N", "e", "e", "d", "s", " ", "I", "m", "m", "e", "d", "i", "a", "t",
      "e", " ", "A", "t", "t", "e", "n", "t", "i", "o", "n">>

\* sections: section name -> (start_marker, end_marker)
sections ==
    [topics       |-> <<HdrTopics, HdrDecisions>>,
     decisions    |-> <<HdrDecisions, HdrQuestions>>,
     questions    |-> <<HdrQuestions, HdrContributors>>,
     contributors |-> <<HdrContributors, NeedsImmediateAttention>>,
     urgent       |-> <<NeedsImmediateAttention, SummaryDetails>>]

\* s.replace(sub, '')
RECURSIVE remove_all(_, _)
remove_all(s, sub) ==
    LET i == Find(s, sub, 0)
    IN  IF i = -1 THEN s
        ELSE Slice(s, 0, i) \o remove_all(Slice(s, i + Len(sub), Len(s)), sub)

\* s.split('\n')
RECURSIVE split_lines(_)
split_lines(s) ==
    LET i == Find(s, <<"\n">>, 0)
    IN  IF i = -1 THEN <<s>>
        ELSE <<Slice(s, 0, i)>> \o split_lines(Slice(s, i + 1, Len(s)))

\* '\n'.join(lines)
RECURSIVE join_lines(_)
join_lines(lines) ==
    IF lines = << >> THEN << >>
    ELSE IF Len(lines) = 1 THEN lines[1]
    ELSE lines[1] \o <<"\n">> \o join_lines(Tail(lines))

\* [line.strip() for line in lines if line.strip().startswith(glyph)]
RECURSIVE stripped_lines_starting(_, _)
stripped_lines_starting(lines, glyph) ==
    IF lines = << >> THEN << >>
    ELSE LET line == Strip(lines[1])
             rest == stripped_lines_starting(Tail(lines), glyph)
         IN  IF line # << >> /\ line[1] = glyph THEN <<line>> \o rest
             ELSE rest

\* get_section_from_summary; None for an unknown name and on the ValueError
\* of str.index
get_section_from_summary(summary_text, section_name) ==
    IF section_name \notin DOMAIN sections THEN Absent
    ELSE LET start_marker == sections[section_name][1]
             end_marker   == sections[section_name][2]
             start_idx    == Find(summary_text, start_marker, 0)
             end_idx      == Find(summary_text, end_marker, 0)
         IN  IF start_idx = -1 \/ end_idx = -1 THEN Absent
             ELSE LET section_text ==
                          Strip(remove_all(
                              Strip(Slice(summary_text, start_idx, end_idx)),
                              start_marker))
                      bullet_points ==
                          stripped_lines_starting(split_lines(section_text),
                                                  Bullet)
                  IN  Some(join_lines(bullet_points))

\* a summary with all sections in the order of the prompt, with a line of prose
DocAllSections ==
    <<"K", "e", "y", " ", "T", "o", "p", "i", "c", "s", "\n", "U+2022", " ",
      "T", ".", "\n", "D", "e", "c", "i", "s", "i", "o", "n", "s", " ", "&",
      " ", "A", "c", "t", "i", "o", "n", "s", "\n", "U+2022", " ", "D", ".",
      "\n", "n", "o", "n", "e", ".", "\n", "U+2022", " ", "E", ".", "\n",
      "S", "t", "a", "t", "u", "s", " ", "&", " ", "Q", "u", "e", "s", "t",
      "i", "o", "n", "s", "\n", "U+2022", " ", "Q", ".", "\n", "C", "o", "n",
      "t", "r", "i", "b", "u", "t", "o", "r", "s", "\n", "U+2022", " ", "A",
      ".", "\n", "N", "e", "e", "d", "s", " ", "I", "m", "m", "e", "d", "i",
      "a", "t", "e", " ", "A", "t", "t", "e", "n", "t", "i", "o", "n", " ",
      "U+1F6A8", "\n", "U+2022", " ", "F", ".", "\n", "S", "u", "m", "m",
      "a", "r", "y", " ", "D", "e", "t", "a", "i", "l", "s", "\n", "x">>

\* prose before and between the bullets of a section
DocProseAndBullets ==
    <<"K", "e", "y", " ", "T", "o", "p", "i", "c", "s", "\n", "I", "n", "t",
      "r", "o", ":", "\n", "U+2022", " ", "T", ".", "\n", "\n", "m", "o",
      "r", "e", "\n", "U+2022", " ", "U", ".", "\n", "D", "e", "c", "i", "s",
      "i", "o", "n", "s", " ", "&", " ", "A", "c", "t", "i", "o", "n", "s",
      "\n", "U+2022", " ", "D", ".">>

\* a bullet that contains the words of its section's header
DocHeaderInBullet ==
    <<"K", "e", "y", " ", "T", "o", "p", "i", "c", "s", "\n", "U+2022", " ",
      "K", "e", "y", " ", "T", "o", "p", "i", "c", "s", " ", "o", "f", " ",
      "t", "h", "e", " ", "w", "e", "e", "k", "\n", "D", "e", "c", "i", "s",
      "i", "o", "n", "s", " ", "&", " ", "A", "c", "t", "i", "o", "n", "s">>

\* a bullet line with whitespace around it
DocIndentedBullet ==
    <<"C", "o", "n", "t", "r", "i", "b", "u", "t", "o", "r", "s", "\n", " ",
      " ", "U+2022", " ", "A", ".", " ", "\n", "N", "e", "e", "d", "s", " ",
      "I", "m", "m", "e", "d", "i", "a", "t", "e", " ", "A", "t", "t", "e",
      "n", "t", "i", "o", "n", " ", "U+1F6A8", "\n", "U+2022", " ", "F", ".">>

\* the end header before the start header
DocEndBeforeStart ==
    <<"D", "e", "c", "i", "s", "i", "o", "n", "s", " ", "&", " ", "A", "c",
      "t", "i", "o", "n", "s", "\n", "U+2022", " ", "D", ".", "\n", "K", "e",
      "y", " ", "T", "o", "p", "i", "c", "s", "\n", "U+2022", " ", "T", ".">>

\* the texts the bullet lines are taken from
BulletTexts ==
    StoredTexts \cup {DocAllSections, DocProseAndBullets, DocHeaderInBullet,
                      DocIndentedBullet, DocEndBeforeStart}

\* a summary text and a section name arrive
ReceiveSummaryText ==
    /\ input.some => output.some
    /\ \E d \in BulletTexts, section_name \in AskedSectionTypes :
          input' = Some([summary_text |-> d, section_name |-> section_name])
    /\ output' = Absent
    /\ UNCHANGED <<contexts, now, req, events>>

\* get_section_from_summary(summary_text, section_name)
GetSectionFromSummary ==
    /\ input.some
    /\ ~output.some
    /\ output' = Some(get_section_from_summary(input.val.summary_text,
                                               input.val.section_name))
    /\ UNCHANGED <<contexts, now, req, events, input>>

BulletNext == ReceiveSummaryText \/ GetSectionFromSummary

BulletSpec == Init /\ [][BulletNext]_vars

(***************************************************************************)
(* slack_events_handler: the events of the Events API, handle_message on   *)
(* the text of the event, and the reply through send_message.  input holds *)
(* the event each worker thread is handling, output the calls of           *)
(* send_message it has made for it.                                        *)
(***************************************************************************)
\* the texts of the events
HandledTexts ==
    {<<"H", "e", "l", "l", "o", "!">>,
     <<"s", "u", "m", "m", "a", "r", "i", "z", "e", " ", "#", "g", "e", "n",
       "e", "r", "a", "l">>,
     <<"t", "h", "r", "e", "a", "d", " ", "s", "u", "m", "m", "a", "r", "y">>,
     <<"w", "h", "o", " ", "c", "o", "n", "t", "r", "i", "b", "u", "t", "e",
       "d">>,
     <<"w", "h", "a", "t", "'", "s", " ", "u", "r", "g", "e", "n", "t">>,
     <<"k", "e", "y", " ", "t", "o", "p", "i", "c", "s">>,
     <<"a", "n", "y", " ", "d", "e", "c", "i", "s", "i", "o", "n", "s">>,
     <<"o", "p", "e", "n", " ", "q", "u", "e", "s", "t", "i", "o", "n", "s">>,
     <<"u", "r", "g", "e", "n", "t", " ", "i", "t", "e", "m", "s", " ", "a",
       "n", "d", " ", "w", "h", "o", " ", "c", "o", "n", "t", "r", "i", "b",
       "u", "t", "e", "d">>,
     <<"f", "e", "e", "d", "b", "a", "c", "k">>,
     <<"h", "e", "l", "p">>,
     <<"x", "y", "z">>,
     <<" ">>}

\* event.get('type'): a message, or another subscribed event
EventTypes == {"message", "app_mention"}

\* event.get('bot_id'): absent for a person's message
BotIds == {None, "B1"}

\* the texts of the events that are not a person's message
OtherTexts ==
    {<<"H", "e", "l", "l", "o", "!">>,
     <<"s", "u", "m", "m", "a", "r", "i", "z", "e", " ", "#", "g", "e", "n",
       "e", "r", "a", "l">>}

\* the events; a thread id comes with the messages that ask for the
\* summary of a thread
SlackEvents ==
    {ev \in [type : EventTypes, bot_id : BotIds, user : Users,
             channel : ChannelIds, thread_ts : ThreadTss,
             text : HandledTexts] :
        /\ (ev.type # "message" \/ ev.bot_id # None) => ev.text \in OtherTexts
        /\ ev.thread_ts # None
            => ev.text = <<"t", "h", "r", "e", "a", "d", " ", "s", "u", "m",
                           "m", "a", "r", "y">>}

\* event_type == 'message' and not event.get('bot_id'), without the check of
\* the sender
is_user_message_any_sender(event) == event.type = "message"

\* event_type == 'message' and not event.get('bot_id')
is_user_message(event) == event.type = "message" /\ event.bot_id = None

\* the reads of intent_data when the key section_type is never found
intent_data_without_section(data) ==
    [intent       |-> data.intent,
     channel      |-> IF "channel" \in DOMAIN data THEN data.channel ELSE None,
     section_type |-> None]

\* intent_data.get('intent'), .get('channel'), .get('section_type')
intent_data_of(data) ==
    [intent       |-> data.intent,
     channel      |-> IF "channel" \in DOMAIN data THEN data.channel ELSE None,
     section_type |-> IF "section_type" \in DOMAIN data
                      THEN data.section_type ELSE None]

\* text = event.get('text', '').strip(); recognize_intent(text)
RecognizedIntent ==
    [text \in HandledTexts |-> recognize_intent(Strip(text))]

\* intent_data as handle_message reads it
HandledIntentData ==
    [text \in HandledTexts |-> intent_data_of(RecognizedIntent[text])]

ErrorNoticeMsg == ":warning: Sorry, I encountered an error. Please try again!"

\* what chat_postMessage does on one call: it posts the message, fails with
\* a SlackApiError, or fails with another error
SendReplies == {"ok", "slack_api_error", "error"}

\* a call of send_message and what became of it
SendCall(channel, text, thread_ts, kind) ==
    [channel |-> channel, text |-> text, thread_ts |-> thread_ts,
     kind |-> kind]

\* bool(response) of the response of handle_message
response_truthy(response) ==
    response.some /\ (response.val.prefix # "" \/ response.val.body # << >>)

\* the calls of send_message after handle_message has ended: the response
\* if there is one, and the error notice from the except block
send_calls(event, rq, kind1, kind2) ==
    LET notice(kind) == SendCall(event.channel, FixedResp(ErrorNoticeMsg),
                                 event.thread_ts, kind)
    IN  IF rq.raised THEN <<notice(kind1)>>
        ELSE IF ~response_truthy(rq.response) THEN << >>
        ELSE LET first == SendCall(event.channel, rq.response.val,
                                   event.thread_ts, kind1)
             IN  IF kind1 = "error" THEN <<first, notice(kind2)>>
                 ELSE <<first>>

\* the event worker thread r is handling
event_of(r) == IF input.some THEN input.val[r] ELSE Absent

\* the calls of send_message worker thread r has made for its event
sent_by(r) == IF output.some THEN output.val[r] ELSE << >>

\* slack_events_handler up to the first wait of handle_message; an event
\* that is not a person's message is answered with an empty HttpResponse
SlackEventsHandler(r) ==
    /\ req[r].pc = "idle"
    /\ events < MaxEvents
    /\ events' = events + 1
    /\ \E ev \in SlackEvents :
          /\ input' = Some([r2 \in Requests |->
                               IF r2 = r THEN Some(ev) ELSE event_of(r2)])
          /\ output' = Some([r2 \in Requests |->
                                IF r2 = r THEN << >> ELSE sent_by(r2)])
          /\ IF is_user_message(ev)
             THEN \E intent_data \in {HandledIntentData[ev.text]} :
                  LET rq == [IdleReq EXCEPT
                                !.user = ev.user,
                                !.channel_id = ev.channel,
                                !.thread_ts = ev.thread_ts,
                                !.intent = intent_data.intent,
                                !.section_type = intent_data.section_type]
                  IN  \E reply \in FetchReplies(intent_data.intent) :
                         req' = [req EXCEPT ![r] =
                                    dispatch(rq, intent_data, reply,
                                             contexts, now)]
             ELSE req' = [req EXCEPT ![r] =
                             [IdleReq EXCEPT !.pc = "responded",
                                             !.outcome = "ignored"]]
    /\ UNCHANGED <<contexts, now>>

\* handle_message has ended: its response, or the error notice, is sent
SendResponse(r) ==
    /\ req[r].pc = "done"
    /\ \E kind1, kind2 \in SendReplies :
          output' = Some([output.val EXCEPT ![r] =
                             send_calls(event_of(r).val, req[r],
                                        kind1, kind2)])
    /\ req' = [req EXCEPT ![r].pc = "responded"]
    /\ UNCHANGED <<contexts, now, events, input>>

\* return HttpResponse(): the worker thread is free for the next event
EndOfEvent(r) ==
    /\ req[r].pc = "responded"
    /\ req' = [req EXCEPT ![r] = IdleReq]
    /\ input' = Some([input.val EXCEPT ![r] = Absent])
    /\ output' = Some([output.val EXCEPT ![r] = << >>])
    /\ UNCHANGED <<contexts, now, events>>

EventsNext ==
    \E r \in Requests :
        \/ SlackEventsHandler(r)
        \/ GenerateSummary(r)
        \/ StoreContext(r)
        \/ CheckContext(r)
        \/ ExtractSection(r)
        \/ GenerateFocused(r)
        \/ SendResponse(r)
        \/ EndOfEvent(r)

EventsSpec == Init /\ [][EventsNext]_vars

(***************************************************************************)
(* SlackService.fetch_unread_messages (bot/services/slack_service) and the *)
(* read cursor UserSummaryState.last_summary_ts (bot/models), for one      *)
(* (user, channel) pair.  The worker threads call fetch_unread_messages    *)
(* for that pair while people post in the channel.  The stored row is      *)
(* input (Absent: no row yet) and the channel's history is output.val.     *)
(* A message's ts is the minute it was posted in, so every message is far  *)
(* younger than the 24 hours _is_valid_unread_message allows.              *)
(***************************************************************************)
\* the limit of one conversations_history page (200 in the code)
PageLimit == 1

\* the pair the cursor is stored for
CursorUser == "U1"

\* who posts in the channel: the user, someone else, or a bot
Authors ==
    {[user |-> "U1", bot_id |-> None],
     [user |-> "U2", bot_id |-> None],
     [user |-> None, bot_id |-> "B1"]}

\* the channel's messages, as conversations_history sees them
channel_history == output.val

\* a worker outside fetch_unread_messages
IdleFetch ==
    [pc           |-> "idle",
     last_read_ts |-> 0,
     messages     |-> {},
     cursor       |-> Absent,
     newest_ts    |-> Absent,
     returned     |-> Absent]

\* UserSummaryState.get_last_summary_ts(user_id, channel_id)
get_last_summary_ts == IF input.some THEN input.val ELSE 0

\* _is_valid_unread_message(msg, user_id)
is_valid_unread_message(msg, user_id) ==
    /\ msg.bot_id = None
    /\ msg.user # None
    /\ msg.user # user_id

\* the messages of set s in ascending order of ts
RECURSIVE sorted_by_ts(_)
sorted_by_ts(s) ==
    IF s = {} THEN << >>
    ELSE LET last == CHOOSE m \in s : \A n \in s : n.ts <= m.ts
         IN  Append(sorted_by_ts(s \ {last}), last)

\* what conversations_history(oldest, cursor, limit) lists after the cursor
listed_after(oldest, cursor) ==
    {m \in channel_history :
        /\ m.ts > oldest
        /\ cursor.some => m.ts < cursor.val}

\* response['messages']: the newest PageLimit messages of the listing
history_page(oldest, cursor) ==
    LET listed == listed_after(oldest, cursor)
    IN  {m \in listed :
            Cardinality({n \in listed : n.ts > m.ts}) < PageLimit}

\* response_metadata.next_cursor: present while older messages remain
next_cursor(oldest, cursor) ==
    LET page == history_page(oldest, cursor)
    IN  IF listed_after(oldest, cursor) \ page = {} THEN Absent
        ELSE Some(CHOOSE t \in {m.ts : m \in page} :
                      \A m \in page : t <= m.ts)

\* the for loop over one page: the new value of newest_ts
newest_after(newest_ts, unread) ==
    IF unread = {} THEN newest_ts
    ELSE LET top == CHOOSE t \in {m.ts : m \in unread} :
                        \A m \in unread : m.ts <= t
         IN  IF ~newest_ts.some \/ top > newest_ts.val THEN Some(top)
             ELSE newest_ts

\* someone posts a message in the channel
PostMessage ==
    /\ now < MaxTime
    /\ now' = now + 1
    /\ \E a \in Authors :
          output' = Some(channel_history \cup
                         {[ts |-> now + 1, user |-> a.user,
                           bot_id |-> a.bot_id]})
    /\ UNCHANGED <<contexts, req, events, input>>

\* fetch_unread_messages is called; step 1 reads the stored cursor
FetchUnreadMessages(r) ==
    /\ req[r].pc = "idle"
    /\ events < MaxEvents
    /\ events' = events + 1
    /\ req' = [req EXCEPT ![r] =
                  [IdleFetch EXCEPT !.pc = "members",
                                    !.last_read_ts = get_last_summary_ts]]
    /\ UNCHANGED <<contexts, now, study>>

\* step 2: conversations_members; only a member's call goes on
ConversationsMembers(r) ==
    /\ req[r].pc = "members"
    /\ \E reply \in {"member", "not_member", "slack_api_error"} :
          req' = [req EXCEPT ![r] =
                     IF reply = "member"
                     THEN [@ EXCEPT !.pc = "history"]
                     ELSE [@ EXCEPT !.pc = "idle",
                                    !.returned = Some(<< >>)]]
    /\ UNCHANGED <<contexts, now, events, study>>

\* step 3: one pass of the while loop, fetching and filtering one page
ConversationsHistory(r) ==
    /\ req[r].pc = "history"
    /\ \E reply \in {"ok", "slack_api_error"} :
          LET oldest == req[r].last_read_ts
              page   == history_page(oldest, req[r].cursor)
              unread == {m \in page :
                            /\ ~(m.ts <= oldest)
                            /\ is_valid_unread_message(m, CursorUser)}
              cursor == next_cursor(oldest, req[r].cursor)
          IN  req' = [req EXCEPT ![r] =
                  IF reply = "slack_api_error"
                  THEN [@ EXCEPT !.pc = "idle", !.returned = Some(<< >>)]
                  ELSE IF page = {}
                  THEN [@ EXCEPT !.pc = "update"]
                  ELSE [@ EXCEPT
                          !.messages  = @ \cup unread,
                          !.newest_ts = newest_after(@, unread),
                          !.cursor    = cursor,
                          !.pc        = IF cursor.some THEN "history"
                                        ELSE "update"]]
    /\ UNCHANGED <<contexts, now, events, study>>

\* step 4: update_last_summary_ts when something unread was found, then
\* the messages are sorted and returned
UpdateLastSummaryTs(r) ==
    /\ req[r].pc = "update"
    /\ input' = IF req[r].newest_ts.some /\ req[r].messages # {}
                THEN Some(req[r].newest_ts.val)
                ELSE input
    /\ req' = [req EXCEPT ![r] =
                  [@ EXCEPT !.pc = "idle",
                            !.returned =
                                Some(sorted_by_ts(req[r].messages))]]
    /\ UNCHANGED <<contexts, now, events, output>>

CursorInit ==
    /\ contexts = [u \in Users |-> Absent]
    /\ now = 0
    /\ req = [r \in Requests |-> IdleFetch]
    /\ events = 0
    /\ input = Absent
    /\ output = Some({})

CursorNext ==
    \/ PostMessage
    \/ \E r \in Requests :
          \/ FetchUnreadMessages(r)
          \/ ConversationsMembers(r)
          \/ ConversationsHistory(r)
          \/ UpdateLastSummaryTs(r)

CursorSpec == CursorInit /\ [][CursorNext]_vars


(***************************************************************************)
(* Properties                                                              *)
(***************************************************************************)
\* a call of handle_message that has ended, for a follow-up message
FollowUpDone(r) == req[r].pc = "done" /\ req[r].intent = "follow_up"

\* the section's header occurs in the context's summary text, followed by
\* content that is not empty
SectionPresent(context, section_type) ==
    /\ dict_truthy(context.last_summary)
    /\ context.last_summary.text # << >>
    /\ try_headers(context.last_summary.text,
                   section_headers(section_type), 1).some

\* the section's content in the context's summary text
SectionText(context, section_type) ==
    try_headers(context.last_summary.text, section_headers(section_type), 1).val

\* worker thread r takes a follow-up message in this step
TakesFollowUp(r) ==
    /\ req[r].pc = "idle"
    /\ req'[r].pc # "idle"
    /\ req'[r].intent = "follow_up"

\* the user's slot holds no context, or one older than the validity window
NoValidContext(user_id) ==
    \/ ~contexts[user_id].some
    \/ now - contexts[user_id].val.timestamp >= ValidityWindow

\* C1: a follow-up from a user whose context is valid when the handling
\* starts (and stays the stored one) and whose stored summary holds the
\* requested section with content is answered with the section's text after
\* "Here's what I found:", without a call of generate_focused_summary,
\* whatever the clock does during the handling.
C1_ValidContextSectionIsFound ==
    \A r \in Requests :
        (/\ FollowUpDone(r)
         /\ req[r].context.some
         /\ contexts[req[r].user] = req[r].context
         /\ SectionPresent(req[r].context.val, req[r].section_type))
        => /\ ~req[r].raised
           /\ req[r].calls = 0
           /\ req[r].response =
                 Some([prefix |-> FoundPrefix,
                       body   |-> SectionText(req[r].context.val,
                                              req[r].section_type)])

\* a follow-up found a valid context holding the section, the context is
\* still the stored one, and the answer is the "I need some context first"
\* message
C1_Witness ==
    \E r \in Requests :
        /\ FollowUpDone(r)
        /\ req[r].context.some
        /\ contexts[req[r].user] = req[r].context
        /\ SectionPresent(req[r].context.val, req[r].section_type)
        /\ req[r].response = Some(FixedResp(NeedContextMsg))

\* C3: a follow-up from a user with no context, or with a context older than
\* the validity window, is answered with the "I need some context first"
\* message and generate_focused_summary is not called; the same holds when
\* the context is found expired by the handler's second validity check.
C3_NoContextNeedsContext ==
    [][\A r \in Requests :
          /\ (TakesFollowUp(r) /\ NoValidContext(req'[r].user))
             => /\ req'[r].pc = "done"
                /\ ~req'[r].raised
                /\ req'[r].response = Some(FixedResp(NeedContextMsg))
                /\ req'[r].calls = 0
          /\ (/\ req[r].pc = "check_context"
              /\ req'[r].pc # "check_context"
              /\ now - req[r].context.val.timestamp >= ValidityWindow)
             => /\ req'[r].pc = "done"
                /\ req'[r].response = Some(FixedResp(NeedContextMsg))
                /\ req'[r].calls = 0
          /\ (req[r].pc = "done" /\ req'[r].pc = "done")
             => req'[r].calls = req[r].calls]_vars

\* a follow-up got the guidance message while the user's slot held an expired
\* context
C3_Witness ==
    \E r \in Requests :
        /\ FollowUpDone(r)
        /\ req[r].outcome = "need_context"
        /\ req[r].calls = 0
        /\ contexts[req[r].user].some
        /\ now - contexts[req[r].user].val.timestamp >= ValidityWindow

\* C4: when the hosted model raises an error during the regeneration for a
\* follow-up, no error leaves handle_message: the caller gets the apology
\* "I had trouble analyzing that aspect of the conversation."
C4_RegenerationErrorIsCaught ==
    \A r \in Requests :
        (FollowUpDone(r) /\ req[r].reply = "raise")
        => /\ ~req[r].raised
           /\ req[r].response = Some(FixedResp(TroubleAnalyzingMsg))

\* a follow-up has ended whose regeneration raised
C4_Witness ==
    \E r \in Requests :
        /\ FollowUpDone(r)
        /\ req[r].reply = "raise"
        /\ req[r].calls = 1
        /\ req[r].response.some

\* the stored, still valid context of the user holds the section with content
SectionInStore(user_id, section_type) ==
    LET context == get_context(contexts, user_id, now)
    IN  context.some /\ SectionPresent(context.val, section_type)

\* worker thread r leaves the step at label pc in this step
Leaves(r, pc) == req[r].pc = pc /\ req'[r].pc # pc

\* C2 as stated: after a regeneration that returned absent the response is
\* the "couldn't find that information" apology.
C2_AbsentGivesCouldntFind ==
    \A r \in Requests :
        (FollowUpDone(r) /\ req[r].outcome \in {"regenerated", "regen_failed"})
        => /\ req[r].calls = 1
           /\ req[r].outcome = "regen_failed"
              => req[r].response = Some(FixedResp(CouldntFindMsg))

\* C2: a follow-up whose context passed the handler's validity checks and
\* whose section extraction finds no content calls generate_focused_summary
\* exactly once, with the context's message list, the section type and the
\* context's channel name; when the call returns absent the response is the
\* "I had trouble analyzing that aspect of the conversation" apology.
C2_RegeneratesOnceWithContext ==
    [][\A r \in Requests :
          /\ (Leaves(r, "extract")
              /\ ~SectionInStore(req[r].user, req[r].section_type))
             => /\ req'[r].pc = "gen_focused"
                /\ req'[r].calls = 0
          /\ Leaves(r, "gen_focused")
             => /\ req'[r].pc = "done"
                /\ req'[r].calls = 1
                /\ req'[r].call_args =
                      Some([messages   |-> req[r].context.val.last_messages,
                            focus_type |-> req[r].section_type,
                            context    |-> req[r].context.val.channel_name])
                /\ req'[r].outcome = "regen_failed"
                   => req'[r].response =
                         Some(FixedResp(TroubleAnalyzingMsg))
          /\ req'[r].calls <= 1]_vars

\* a regeneration returned absent and the follow-up was answered
C2_Witness ==
    \E r \in Requests :
        /\ FollowUpDone(r)
        /\ req[r].outcome = "regen_failed"
        /\ req[r].calls = 1
        /\ req[r].call_args.some
        /\ req[r].response = Some(FixedResp(TroubleAnalyzingMsg))

\* the ways handle_message ends other than with a generated summary
NoWriteOutcomes ==
    {"greeting", "feedback", "help", "unknown",
     "fetch_raised", "fetch_failed", "gen_raised", "gen_failed",
     "no_thread_ts", "need_context", "need_section",
     "found", "regenerated", "regen_failed", "regen_raised"}

\* C5: the store is written only by a call that generated a channel or
\* thread summary: a call that ends in a failed fetch, a failed generation,
\* a thread request without thread_ts or any follow-up has written nothing,
\* and every step that changes some user's context is the store of such a
\* summary.
C5_StoreWrittenOnlyOnSummary ==
    /\ [](\A r \in Requests :
            (req[r].pc = "done" /\ req[r].outcome \in NoWriteOutcomes)
            => ~req[r].wrote)
    /\ [][\A u \in Users :
            contexts'[u] # contexts[u]
            => \E r \in Requests :
                  /\ req[r].user = u
                  /\ req[r].pc = "store_context"
                  /\ req[r].intent \in {"channel_summary", "thread_summary"}
                  /\ req[r].summary.some
                  /\ dict_truthy(req[r].summary.val)
                  /\ req'[r].outcome = "summarized"
                  /\ req'[r].wrote
                  /\ \A r2 \in Requests \ {r} : req'[r2] = req[r2]]_vars

\* a follow-up was answered by a regeneration and the user's context is still
\* the one the follow-up found
C5_Witness ==
    \E r \in Requests :
        /\ FollowUpDone(r)
        /\ req[r].outcome = "regenerated"
        /\ ~req[r].wrote
        /\ contexts[req[r].user] = req[r].context

\* the record an update_context call of worker thread r builds from its
\* arguments, but for the creation time
RecordOf(r) ==
    [channel_name  |-> req[r].channel_name,
     channel_id    |-> req[r].channel_id,
     last_summary  |-> req[r].summary.val,
     last_messages |-> req[r].messages,
     thread_ts     |-> IF req[r].intent = "thread_summary"
                       THEN req[r].thread_ts ELSE None]

\* a context without its creation time
Fields(context) ==
    [channel_name  |-> context.channel_name,
     channel_id    |-> context.channel_id,
     last_summary  |-> context.last_summary,
     last_messages |-> context.last_messages,
     thread_ts     |-> context.thread_ts]

\* C6: with update_context calls of several worker threads under way for one
\* user, the user's slot holds at every moment no context or the whole
\* record of one call: a record in the making has all its fields from the
\* arguments and the clock reading of its own call, and every change of a
\* slot installs one such record as a whole.
C6_RecordFromOneCall ==
    /\ [](\A r \in Requests :
            req[r].pc = "store_context"
            => /\ req[r].new_context.some
               /\ Fields(req[r].new_context.val) = RecordOf(r)
               /\ req[r].new_context.val.timestamp <= now)
    /\ [][\A u \in Users :
            contexts'[u] # contexts[u]
            => \E r \in Requests :
                  /\ req[r].pc = "store_context"
                  /\ req[r].user = u
                  /\ contexts'[u] = req[r].new_context]_vars

\* a call is between building its record and storing it while the slot of
\* its user holds another record, built after its own
C6_Witness ==
    \E r \in Requests :
        /\ req[r].pc = "store_context"
        /\ contexts[req[r].user].some
        /\ contexts[req[r].user].val.timestamp
              > req[r].new_context.val.timestamp
        /\ Fields(contexts[req[r].user].val) # RecordOf(r)

\* C7: get_context returns the stored context at every moment at which less
\* than ValidityWindow minutes have passed since its creation, and reports
\* it absent from exactly ValidityWindow minutes on; a user without a stored
\* context has none.
C7_ValidStrictlyWithinWindow ==
    \A u \in Users :
        LET found == get_context(contexts, u, now)
        IN  IF ~contexts[u].some THEN found = Absent
            ELSE LET age == now - contexts[u].val.timestamp
                 IN  /\ age >= 0
                     /\ age < ValidityWindow => found = contexts[u]
                     /\ age >= ValidityWindow => found = Absent

\* a follow-up was refused at the moment its user's context was exactly
\* ValidityWindow minutes old
C7_Witness ==
    \E r \in Requests :
        /\ FollowUpDone(r)
        /\ req[r].outcome = "need_context"
        /\ contexts[req[r].user].some
        /\ now - contexts[req[r].user].val.timestamp = ValidityWindow
        /\ get_context(contexts, req[r].user, now) = Absent

\* C8: right after an update_context call has stored its record (less than
\* the validity window after the call began), get_context for the same user
\* returns a context whose channel name, channel id, summary, message list
\* and thread id are the arguments of the call, whatever the slot held.
C8_UpdateThenGetRoundTrips ==
    [][\A r \in Requests :
          (/\ Leaves(r, "store_context")
           /\ now' - req[r].new_context.val.timestamp < ValidityWindow)
          => LET found == get_context(contexts', req[r].user, now')
             IN  /\ found.some
                 /\ Fields(found.val) = RecordOf(r)]_vars

\* a thread summary was stored over another context and is the one
\* get_context returns
C8_Witness ==
    \E r \in Requests :
        /\ req[r].pc = "done"
        /\ req[r].intent = "thread_summary"
        /\ req[r].wrote
        /\ req[r].replaced = "valid"
        /\ get_context(contexts, req[r].user, now).some
        /\ get_context(contexts, req[r].user, now).val.thread_ts # None

\* C9: update_context replaces whatever the user's slot holds by a record
\* whose creation time is the clock reading of the call: the record is
\* valid at every minute of the window that starts there and at none from
\* its end on, and after the store the slot holds that record and nothing
\* of the one it replaced.
C9_UpdateReplacesAndRestartsWindow ==
    [][\A r \in Requests :
          /\ Leaves(r, "gen_summary") /\ req'[r].pc = "store_context"
             => LET c == req'[r].new_context.val
                IN  /\ c.timestamp = now
                    /\ \A t \in c.timestamp .. c.timestamp + ValidityWindow - 1 :
                          is_context_valid(c, t)
                    /\ ~is_context_valid(c, c.timestamp + ValidityWindow)
          /\ Leaves(r, "store_context")
             => /\ contexts'[req[r].user] = req[r].new_context
                /\ \A t \in now' .. req[r].new_context.val.timestamp
                                        + ValidityWindow - 1 :
                      get_context(contexts', req[r].user, t)
                         = req[r].new_context
                /\ \A u \in Users \ {req[r].user} :
                      contexts'[u] = contexts[u]]_vars

\* an update has replaced an expired context and the new one is valid
C9_Witness ==
    \E r \in Requests :
        /\ req[r].pc = "done"
        /\ req[r].wrote
        /\ req[r].replaced = "expired"
        /\ contexts[req[r].user].some
        /\ contexts[req[r].user].val.timestamp = now
        /\ get_context(contexts, req[r].user, now) = contexts[req[r].user]

\* C10: the steps that call get_context and extract_summary_section (the
\* lookup of a follow-up, and its section extraction) leave the store as it
\* was: every user's slot, with every field of its context, is unchanged.
C10_LookupsLeaveStore ==
    [][\A r \in Requests :
          (TakesFollowUp(r) \/ Leaves(r, "extract"))
          => \A u \in Users : contexts'[u] = contexts[u]]_vars

\* a section extraction ran for a user whose context had expired, and the
\* expired context is still in the store
C10_Witness ==
    \E r \in Requests :
        /\ req[r].pc = "gen_focused"
        /\ contexts[req[r].user] = req[r].context
        /\ now - contexts[req[r].user].val.timestamp >= ValidityWindow

\* the ways a call ends with a channel or thread summary as its response
SummaryOutcomes == {"summarized", "slash_summarized"}

\* C11: every call that ends with a channel or thread summary for a user,
\* from a conversational message or from a slash-command handler, has
\* written the user's context, so that the user's slot holds a context for
\* the follow-ups of the next 5 minutes.
C11_EverySummaryStoresContext ==
    \A r \in Requests :
        (req[r].pc = "done" /\ req[r].outcome \in SummaryOutcomes)
        => /\ req[r].wrote
           /\ contexts[req[r].user].some

\* a slash command gave a user a summary, and the same user's follow-up,
\* with no time passed, was told that context is needed first
C11_Witness ==
    \E r1, r2 \in Requests :
        /\ req[r1].pc = "done"
        /\ req[r1].outcome = "slash_summarized"
        /\ FollowUpDone(r2)
        /\ req[r2].user = req[r1].user
        /\ req[r2].response = Some(FixedResp(NeedContextMsg))
        /\ now = 0

\* worker thread r waits for generate_summary or generate_focused_summary
InSummarizerCall(r) == req[r].pc \in {"gen_summary", "gen_focused"}

MatchedText == Strip(lower(input.val))

\* the rule groups before the follow-up group find nothing in the text
BeforeFollowUp(t) ==
    ~greeting_rule(t).some /\ ~channel_rule(t).some /\ ~thread_rule(t).some

\* C13: the rule groups are applied in the order greeting, channel summary,
\* thread summary, follow-up, feedback, help, and the first group that
\* matches gives the intent; a text that matches a channel-summary pattern
\* and a follow-up pattern is a CHANNEL_SUMMARY.
C13_FirstMatchingGroupWins ==
    output.some =>
        LET t      == MatchedText
            intent == output.val.intent
        IN  /\ greeting_rule(t).some => intent = "greeting"
            /\ (~greeting_rule(t).some /\ channel_rule(t).some)
               => intent = "channel_summary"
            /\ (~greeting_rule(t).some /\ ~channel_rule(t).some
                   /\ thread_rule(t).some)
               => intent = "thread_summary"
            /\ (BeforeFollowUp(t) /\ follow_up_rule(t).some)
               => intent = "follow_up"
            /\ (BeforeFollowUp(t) /\ ~follow_up_rule(t).some
                   /\ feedback_rule(t).some)
               => intent = "feedback"
            /\ (BeforeFollowUp(t) /\ ~follow_up_rule(t).some
                   /\ ~feedback_rule(t).some /\ help_rule(t).some)
               => intent = "help"

\* a text with a channel-summary phrase and a follow-up phrase was
\* classified CHANNEL_SUMMARY
C13_Witness ==
    /\ output.some
    /\ channel_rule(MatchedText).some
    /\ follow_up_rule(MatchedText).some
    /\ output.val.intent = "channel_summary"

\* the four thread phrases
ThreadPhrases ==
    {<<"s", "u", "m", "m", "a", "r", "i", "z", "e", " ", "t", "h", "r",
       "e", "a", "d">>,
     <<"t", "h", "r", "e", "a", "d", " ", "s", "u", "m", "m", "a", "r",
       "y">>,
     <<"w", "h", "a", "t", "'", "s", " ", "h", "a", "p", "p", "e", "n",
       "i", "n", "g", " ", "i", "n", " ", "t", "h", "i", "s", " ", "t",
       "h", "r", "e", "a", "d">>,
     <<"w", "h", "a", "t", "'", "s", " ", "t", "h", "i", "s", " ", "t",
       "h", "r", "e", "a", "d", " ", "a", "b", "o", "u", "t">>}

\* C14: a text that is no greeting and contains one of the four thread
\* phrases is classified THREAD_SUMMARY, with no extra data.
C14_ThreadPhraseGivesThreadSummary ==
    (/\ output.some
     /\ ~greeting_rule(MatchedText).some
     /\ \E phrase \in ThreadPhrases : Contains(MatchedText, phrase))
    => output.val = [intent |-> "thread_summary"]

\* a text with the phrase "summarize thread" was classified CHANNEL_SUMMARY,
\* for a channel named thread
C14_Witness ==
    /\ output.some
    /\ Contains(MatchedText, <<"s", "u", "m", "m", "a", "r", "i", "z", "e", " ", "t", "h", "r",
          "e", "a", "d">>)
    /\ output.val.intent = "channel_summary"
    /\ output.val.channel = <<"t", "h", "r", "e", "a", "d">>

\* the channel token of the text as the user typed it: the characters of the
\* trimmed text at the place of the channel group
TypedChannel ==
    LET match == first_search(channel_summary_patterns, MatchedText)
    IN  SubSeq(Strip(input.val), match.from, match.to)

\* C15 as stated: for a text with a channel-summary phrase followed by a
\* channel token the result is CHANNEL_SUMMARY with the token as the channel,
\* character for character as typed, letter case included, without the
\* leading '#'.
C15_ChannelIsTokenAsTyped ==
    (/\ output.some
     /\ ~greeting_rule(MatchedText).some
     /\ channel_rule(MatchedText).some)
    => /\ output.val.intent = "channel_summary"
       /\ output.val.channel = TypedChannel

\* C15: for a text that is no greeting and has a channel-summary phrase
\* followed by a channel token, the result is CHANNEL_SUMMARY with the token
\* in lower case as the channel: the characters as typed but for their
\* letter case, without the leading '#', and nothing but intent and channel.
C15_ChannelIsTokenLowered ==
    (/\ output.some
     /\ ~greeting_rule(MatchedText).some
     /\ first_search(channel_summary_patterns, MatchedText).ok)
    => /\ output.val.intent = "channel_summary"
       /\ DOMAIN output.val = {"intent", "channel"}
       /\ output.val.channel = lower(TypedChannel)
       /\ \A i \in DOMAIN output.val.channel :
             output.val.channel[i] \in ChannelChars

\* the user typed the channel Dev-Ops and the result names dev-ops
C15_Witness ==
    /\ output.some
    /\ output.val.intent = "channel_summary"
    /\ TypedChannel = <<"D", "e", "v", "-", "O", "p", "s">>
    /\ output.val.channel = <<"d", "e", "v", "-", "o", "p", "s">>

\* the greeting phrases
GreetingPhrases ==
    {<<"h", "i">>,
     <<"h", "e", "l", "l", "o">>,
     <<"h", "e", "y">>,
     <<"g", "o", "o", "d", " ", "m", "o", "r", "n", "i", "n", "g">>,
     <<"g", "o", "o", "d", " ", "a", "f", "t", "e", "r", "n", "o", "o",
       "n">>,
     <<"g", "o", "o", "d", " ", "e", "v", "e", "n", "i", "n", "g">>}

\* punctuation that may follow a greeting
Punctuation == {"!", ".", "?", ",", ";", ":"}

\* the text is a greeting phrase followed by characters of trail only
GreetingThen(t, trail) ==
    \E phrase \in GreetingPhrases :
        /\ Len(t) >= Len(phrase)
        /\ SubSeq(t, 1, Len(phrase)) = phrase
        /\ \A i \in Len(phrase) + 1 .. Len(t) : t[i] \in trail

\* C16 as stated: a text is classified GREETING exactly when it is, as a
\* whole and ignoring case, a greeting phrase followed by punctuation and
\* whitespace only.
C16_GreetingThenPunctuation ==
    output.some =>
        (output.val.intent = "greeting"
            <=> GreetingThen(MatchedText, Whitespace \cup Punctuation))

\* C16: a text is classified GREETING exactly when it is, as a whole and
\* ignoring case and surrounding whitespace, a greeting phrase followed by
\* exclamation marks and whitespace only; the result then carries nothing
\* but the intent.
C16_GreetingThenExclamation ==
    output.some =>
        /\ output.val.intent = "greeting"
              <=> GreetingThen(MatchedText, Whitespace \cup {"!"})
        /\ output.val.intent = "greeting"
              => output.val = [intent |-> "greeting"]

\* a greeting typed with a capital and an exclamation mark was classified
\* GREETING
C16_Witness ==
    /\ output.some
    /\ output.val.intent = "greeting"
    /\ input.val # lower(input.val)
    /\ input.val[Len(input.val)] = "!"

\* the section types in their fixed order
SectionOrder ==
    <<"contributors", "urgent", "topics", "decisions", "questions">>

\* the places in SectionOrder of the groups a pattern of which is found
MatchingSections(t) ==
    {k \in DOMAIN SectionOrder :
        \E j \in DOMAIN follow_up_patterns[SectionOrder[k]] :
           re_search(follow_up_patterns[SectionOrder[k]][j], t).ok}

\* C17: the section_type of a FOLLOW_UP result is the first group, in the
\* order contributors, urgent, topics, decisions, questions, that has a
\* pattern found in the text.
C17_EarliestSectionWins ==
    (output.some /\ output.val.intent = "follow_up")
    => LET hits == MatchingSections(MatchedText)
       IN  /\ hits # {}
           /\ \E k \in hits :
                 /\ \A k2 \in hits : k <= k2
                 /\ output.val.section_type = SectionOrder[k]

\* a text with phrases of two groups got the earlier group, which comes
\* later in the text
C17_Witness ==
    /\ output.some
    /\ output.val.intent = "follow_up"
    /\ Cardinality(MatchingSections(MatchedText)) = 2
    /\ output.val.section_type = "contributors"
    /\ Contains(MatchedText, <<"u", "r", "g", "e", "n", "t", " ", "i", "t", "e", "m", "s">>)

\* the closed set of intents
Intents ==
    {"greeting", "channel_summary", "thread_summary", "follow_up",
     "feedback", "help", "unknown"}

\* no rule group finds anything in the text
NoGroupMatches(t) ==
    /\ BeforeFollowUp(t)
    /\ MatchingSections(t) = {}
    /\ ~Contains(t, FeedbackWord)
    /\ t \notin HelpTexts

\* C18: recognize_intent returns, for every text, one intent of the closed
\* set; a text no rule group matches gives UNKNOWN and nothing else, and so
\* do the empty text and a text of whitespace only.
C18_TotalWithUnknownFallback ==
    output.some =>
        /\ output.val.intent \in Intents
        /\ NoGroupMatches(MatchedText) => output.val = [intent |-> "unknown"]
        /\ (\A i \in DOMAIN input.val : input.val[i] \in Whitespace)
           => output.val = [intent |-> "unknown"]

\* a text of whitespace only was classified UNKNOWN
C18_Witness ==
    /\ output.some
    /\ input.val # << >>
    /\ \A i \in DOMAIN input.val : input.val[i] \in Whitespace
    /\ output.val.intent = "unknown"

\* C19: a text that contains "feedback" in any letter case and matches none
\* of the greeting, channel-summary, thread-summary and follow-up groups is
\* classified FEEDBACK; HELP is the result only for a text that, trimmed and
\* in lower case, is exactly one of the three help phrases.
C19_FeedbackAnywhereHelpExact ==
    output.some =>
        /\ (/\ Contains(lower(input.val), FeedbackWord)
            /\ BeforeFollowUp(MatchedText)
            /\ MatchingSections(MatchedText) = {})
           => output.val = [intent |-> "feedback"]
        /\ output.val.intent = "help" => MatchedText \in HelpTexts
        /\ (MatchedText \in HelpTexts) => output.val = [intent |-> "help"]

\* a text with the word Feedback, typed with a capital, after a help phrase
\* was classified FEEDBACK
C19_Witness ==
    /\ output.some
    /\ output.val.intent = "feedback"
    /\ ~Contains(input.val, FeedbackWord)
    /\ \E h \in HelpTexts : Contains(MatchedText, h)

\* sub occurs in s at index i (counted from 0)
OccursAt(s, sub, i) ==
    /\ i >= 0
    /\ i + Len(sub) <= Len(s)
    /\ \A k \in 1 .. Len(sub) : s[i + k] = sub[k]

\* the least number of a non-empty set of numbers
Least(S) == CHOOSE i \in S : \A j \in S : i <= j

\* the header of each known section type
HeaderOf ==
    [contributors |-> HdrContributors, urgent |-> HdrUrgent,
     topics |-> HdrTopics, decisions |-> HdrDecisions,
     questions |-> HdrQuestions]

\* where the section of header hdr starts in doc: right after the first
\* occurrence of hdr
SectionStart(doc, hdr) ==
    Least({i \in 0 .. Len(doc) : OccursAt(doc, hdr, i)}) + Len(hdr)

\* where it ends: at the earliest header of any type at or after the start;
\* without one, at the first marker at or after the start; without one, at
\* the end of doc
SectionEnd(doc, hdr) ==
    LET start   == SectionStart(doc, hdr)
        later   == {j \in start .. Len(doc) :
                       \E t \in DOMAIN HeaderOf : OccursAt(doc, HeaderOf[t], j)}
        markers == {j \in start .. Len(doc) : OccursAt(doc, SummaryDetails, j)}
    IN  IF later # {} THEN Least(later)
        ELSE IF markers # {} THEN Least(markers)
        ELSE Len(doc)

\* r is s without its leading and trailing whitespace
IsTrimmed(r, s) ==
    \E a, b \in 0 .. Len(s) :
        /\ a + Len(r) + b = Len(s)
        /\ \A k \in 1 .. Len(r) : s[a + k] = r[k]
        /\ \A k \in (1 .. a) \cup ((a + Len(r) + 1) .. Len(s)) :
              s[k] \in Whitespace
        /\ r # << >> => r[1] \notin Whitespace /\ r[Len(r)] \notin Whitespace

\* the text stored for the user the section was asked for
AskedText == contexts[input.val.user_id].val.last_summary.text

\* C20: a section returned by extract_summary_section is the text between
\* the end of the first occurrence of the section's header and the earliest
\* later header of any section type, or, with no later header, the first
\* Summary Details marker or the end of the text, without its surrounding
\* whitespace; and whenever that text is not empty it is returned.  For the
\* two-section document about Alice and Bob the contributors section is the
\* bullet "Alice, Bob participated."
C20_SectionIsDelimitedByAnyHeader ==
    (/\ output.some
     /\ input.val.section_type \in DOMAIN HeaderOf
     /\ contexts[input.val.user_id].some
     /\ \E i \in 0 .. Len(AskedText) :
           OccursAt(AskedText, HeaderOf[input.val.section_type], i))
    => LET hdr   == HeaderOf[input.val.section_type]
           start == SectionStart(AskedText, hdr)
           until == SectionEnd(AskedText, hdr)
           piece == SubSeq(AskedText, start + 1, until)
       IN  /\ output.val.some => IsTrimmed(output.val.val, piece)
           /\ ~output.val.some => IsTrimmed(<< >>, piece)
           /\ (AskedText = DocAliceBob
                  /\ input.val.section_type = "contributors")
              => output.val =
                   Some(<<"U+2022", " ", "A", "l", "i", "c", "e", ",", " ",
                          "B", "o", "b", " ", "p", "a", "r", "t", "i", "c",
                          "i", "p", "a", "t", "e", "d", ".">>)

\* the contributors section of the two-section document has been returned,
\* and so has a section that the marker ends
C20_Witness ==
    /\ output.some
    /\ output.val.some
    /\ contexts[input.val.user_id].some
    /\ \/ AskedText = DocAliceBob /\ input.val.section_type = "contributors"
       \/ AskedText = DocTrailingDetails /\ input.val.section_type = "topics"

\* the context stored for the user the section was asked for
AskedContext == contexts[input.val.user_id]

\* the text between the section's header and its end is blank
BlankSection(doc, hdr) ==
    IsTrimmed(<< >>, SubSeq(doc, SectionStart(doc, hdr) + 1,
                            SectionEnd(doc, hdr)))

\* the cases in which there is no section to return

NoSummaryText ==
    /\ AskedContext.some
    /\ \/ AskedContext.val.last_summary = EmptyDict
       \/ AskedContext.val.last_summary.text = << >>

UnknownSectionType == input.val.section_type \notin DOMAIN HeaderOf

HeaderNotInText ==
    /\ ~NoValidContext(input.val.user_id)
    /\ ~NoSummaryText /\ ~UnknownSectionType
    /\ \A i \in 0 .. Len(AskedText) :
          ~OccursAt(AskedText, HeaderOf[input.val.section_type], i)

BlankSectionInText ==
    /\ ~NoValidContext(input.val.user_id)
    /\ ~NoSummaryText /\ ~UnknownSectionType
    /\ ~HeaderNotInText
    /\ BlankSection(AskedText, HeaderOf[input.val.section_type])

\* the follow-up call that asked for the section, before the check of the
\* result
AskingCall ==
    [IdleReq EXCEPT !.pc = "extract", !.user = input.val.user_id,
                    !.intent = "follow_up",
                    !.section_type = input.val.section_type]

\* C21: extract_summary_section never returns an empty string; it returns
\* absent when the user has no valid context, when the stored summary is
\* missing or has an empty text, when the section type is not a known one,
\* when the section's header is not in the text and when the delimited
\* content is blank; and on absent the follow-up handler goes on to the
\* regeneration instead of answering
C21_NoSectionIsAbsentAndRegenerates ==
    output.some
    => /\ output.val.some => output.val.val # << >>
       /\ (\/ NoValidContext(input.val.user_id)
           \/ NoSummaryText
           \/ UnknownSectionType
           \/ HeaderNotInText
           \/ BlankSectionInText)
          => /\ output.val = Absent
             /\ after_extract(AskingCall, output.val).pc = "gen_focused"
             /\ ~after_extract(AskingCall, output.val).response.some

\* a section was asked of an expired context
C21_Witness ==
    /\ output.some
    /\ output.val = Absent
    /\ AskedContext.some
    /\ now - AskedContext.val.timestamp >= ValidityWindow
    /\ ~NoSummaryText /\ ~UnknownSectionType

\* the lines of doc that lie between the first occurrence of header from
\* and the first occurrence of header to (none when to comes first)
LinesBetween(doc, from, to) ==
    LET start == Least({i \in 0 .. Len(doc) : OccursAt(doc, from, i)})
        until == Least({i \in 0 .. Len(doc) : OccursAt(doc, to, i)})
    IN  split_lines(SubSeq(doc, start + Len(from) + 1, until))

\* line, without the whitespace around it, starts with the bullet glyph
IsBulletLine(line) == \E i \in 1 .. Len(line) :
    /\ line[i] = Bullet
    /\ \A k \in 1 .. (i - 1) : line[k] \in Whitespace

\* the bullet lines of a sequence of lines, in their order
RECURSIVE BulletLines(_)
BulletLines(lines) ==
    IF lines = << >> THEN << >>
    ELSE IF IsBulletLine(lines[1])
         THEN <<Strip(lines[1])>> \o BulletLines(Tail(lines))
         ELSE BulletLines(Tail(lines))

\* both bounding headers of the named section occur in doc
BothHeadersIn(doc, name) ==
    /\ name \in DOMAIN sections
    /\ \E i \in 0 .. Len(doc) : OccursAt(doc, sections[name][1], i)
    /\ \E i \in 0 .. Len(doc) : OccursAt(doc, sections[name][2], i)

\* C22: get_section_from_summary returns the lines between the section's
\* start header and its end header that start with the bullet glyph, in
\* the order of the document and without the lines of prose; it returns
\* absent when a bounding header is not in the document or the section
\* name is unknown
C22_BulletLinesBetweenHeaders ==
    output.some
    => LET doc  == input.val.summary_text
           name == input.val.section_name
       IN  IF BothHeadersIn(doc, name)
           THEN output.val =
                   Some(join_lines(BulletLines(
                       LinesBetween(doc, sections[name][1],
                                    sections[name][2]))))
           ELSE output.val = Absent

\* the bullets of a section with prose lines have been returned
C22_Witness ==
    /\ output.some
    /\ input.val.summary_text = DocProseAndBullets
    /\ input.val.section_name = "topics"
    /\ output.val =
          Some(<<"U+2022", " ", "T", ".", "\n", "U+2022", " ", "U", ".">>)

\* worker thread r is handling a person's message
HandlingMessage(r) ==
    /\ req[r].pc # "idle"
    /\ event_of(r).some
    /\ is_user_message(event_of(r).val)

\* C23: a FOLLOW_UP result of recognize_intent carries a section_type that
\* is one of the five section types, each of them a key of the header table
\* of extract_summary_section; no call of handle_message ends with the
\* clarification "I'm not sure what specific information you're looking
\* for", and it is never sent
C23_FollowUpAlwaysNamesSection ==
    \A r \in Requests :
        /\ HandlingMessage(r)
           => LET data == RecognizedIntent[event_of(r).val.text]
              IN  data.intent = "follow_up"
                  => /\ "section_type" \in DOMAIN data
                     /\ data.section_type \in SectionTypes
                     /\ section_headers(data.section_type) # << >>
                     /\ req[r].section_type = data.section_type
        /\ req[r].outcome # "need_section"
        /\ req[r].response # Some(FixedResp(NotSureMsg))
        /\ \A i \in DOMAIN sent_by(r) :
              sent_by(r)[i].text # FixedResp(NotSureMsg)

\* a follow-up about the urgent items has passed the check of its
\* section_type and has been answered
C23_Witness ==
    \E r \in Requests :
        /\ HandlingMessage(r)
        /\ req[r].pc = "responded"
        /\ req[r].intent = "follow_up"
        /\ req[r].section_type = "urgent"
        /\ req[r].outcome \in {"found", "regenerated", "regen_failed"}
        /\ Len(sent_by(r)) = 1

\* C24: no step removes a user's entry from the store: a slot that holds a
\* context holds one after every step, and an expired context stays in its
\* slot, unchanged, until a store of update_context for the same user
\* replaces it
C24_EntriesAreNeverRemoved ==
    [][\A u \in Users :
          contexts[u].some
          => /\ contexts'[u].some
             /\ contexts'[u] # contexts[u]
                => \E r \in Requests :
                      /\ Leaves(r, "store_context")
                      /\ req[r].user = u
                      /\ contexts'[u] = req[r].new_context]_vars

\* a user's context has expired, another user's summary was stored after
\* the expiry, and the expired context is still in its slot
C24_Witness ==
    \E u \in Users :
        /\ contexts[u].some
        /\ now - contexts[u].val.timestamp >= ValidityWindow
        /\ \E r \in Requests :
              /\ req[r].pc = "done"
              /\ req[r].user # u
              /\ req[r].outcome = "summarized"
              /\ contexts[req[r].user].val.timestamp
                    - contexts[u].val.timestamp >= ValidityWindow

\* C25: a follow-up handling works on one context: the context whose
\* summary text extract_summary_section searches is the one that passed the
\* validity check, whatever update_context calls run beside it for the same
\* user, and the messages and the channel name given to
\* generate_focused_summary are those of that context
C25_FollowUpUsesOneContext ==
    [][\A r \in Requests :
          /\ Leaves(r, "extract")
             => contexts[req[r].user] = req[r].context
          /\ Leaves(r, "gen_focused")
             => /\ req'[r].call_args.val.messages
                      = req[r].context.val.last_messages
                /\ req'[r].call_args.val.context
                      = req[r].context.val.channel_name]_vars

\* a follow-up about the contributors passed the validity check on the
\* first summary, which has no such section, and was answered with the
\* section of a summary stored afterwards
C25_Witness ==
    \E r \in Requests :
        /\ FollowUpDone(r)
        /\ req[r].section_type = "contributors"
        /\ req[r].context = Some(FirstContext)
        /\ req[r].outcome = "found"
        /\ req[r].response.val.body = BulletA

\* C26: the store of update_context for one user leaves the slot of every
\* other user as it was, with all fields and the creation time; and
\* handle_message for a user reads and answers from that user's slot only:
\* the context a follow-up works on is the one in its user's slot, a user
\* without one is asked for context whatever the other slots hold, and a
\* section given as the answer is a section of the summary in the user's
\* own slot
C26_UsersAreIsolated ==
    [][\A r \in Requests :
          /\ Leaves(r, "store_context")
             => \A u \in Users \ {req[r].user} : contexts'[u] = contexts[u]
          /\ TakesFollowUp(r)
             => /\ req'[r].context \in {Absent, contexts[req'[r].user]}
                /\ ~contexts[req'[r].user].some
                   => /\ req'[r].outcome = "need_context"
                      /\ req'[r].context = Absent
          /\ (Leaves(r, "extract") /\ req'[r].outcome = "found")
             => /\ contexts[req[r].user].some
                /\ Some(req'[r].response.val.body)
                      = try_headers(
                            contexts[req[r].user].val.last_summary.text,
                            section_headers(req[r].section_type), 1)]_vars

\* two users have different summaries stored, and a follow-up of one of
\* them was answered with a section of that user's summary
C26_Witness ==
    \E r \in Requests :
        /\ FollowUpDone(r)
        /\ req[r].outcome = "found"
        /\ contexts[req[r].user] = req[r].context
        /\ \E u \in Users \ {req[r].user} :
              /\ contexts[u].some
              /\ contexts[u].val.last_summary
                    # contexts[req[r].user].val.last_summary

\* C27: every context in the store holds a summary that is not absent and a
\* list of messages that is not empty, and so does every context in the
\* making; a regeneration is never called with an empty list of messages
C27_StoredContextsHaveMessages ==
    /\ \A u \in Users :
          contexts[u].some
          => /\ dict_truthy(contexts[u].val.last_summary)
             /\ contexts[u].val.last_messages # << >>
    /\ \A r \in Requests :
          /\ req[r].new_context.some
             => /\ dict_truthy(req[r].new_context.val.last_summary)
                /\ req[r].new_context.val.last_messages # << >>
          /\ req[r].pc = "gen_focused"
             => req[r].context.val.last_messages # << >>
          /\ req[r].call_args.some => req[r].call_args.val.messages # << >>

\* a regeneration was called with the messages of the stored context
C27_Witness ==
    \E r \in Requests :
        /\ FollowUpDone(r)
        /\ req[r].calls = 1
        /\ req[r].call_args.val.messages
              = contexts[req[r].user].val.last_messages
        /\ req[r].call_args.val.messages # << >>

\* the event carries a bot_id or is not of type message
NotAPersonsMessage(ev) == ev.type # "message" \/ ev.bot_id # None

\* C28: an event that carries a bot_id, or whose type is not message, does
\* not reach handle_message (no intent is recognized, no response is made),
\* leaves the context store as it is and causes no call of send_message
C28_BotAndOtherEventsAreIgnored ==
    /\ [](\A r \in Requests :
            (event_of(r).some /\ NotAPersonsMessage(event_of(r).val))
            => /\ req[r].pc = "responded"
               /\ req[r].outcome = "ignored"
               /\ req[r].intent = None
               /\ req[r].response = Absent
               /\ ~req[r].wrote
               /\ sent_by(r) = << >>)
    /\ [][\A r \in Requests :
            (/\ req[r].pc = "idle"
             /\ req'[r].pc # "idle"
             /\ NotAPersonsMessage(input'.val[r].val))
            => contexts' = contexts]_vars

\* a message of the bot that asks for a summary was taken and dropped
C28_Witness ==
    \E r \in Requests :
        /\ event_of(r).some
        /\ event_of(r).val.type = "message"
        /\ event_of(r).val.bot_id # None
        /\ RecognizedIntent[event_of(r).val.text].intent = "channel_summary"
        /\ req[r].pc = "responded"
        /\ sent_by(r) = << >>

\* slack_events_handler has finished with a person's message on worker
\* thread r
MessageAnswered(r) ==
    /\ req[r].pc = "responded"
    /\ event_of(r).some
    /\ ~NotAPersonsMessage(event_of(r).val)

\* C29: for every message event of a person slack_events_handler makes
\* exactly one call of send_message, to the channel of the event: with the
\* response of handle_message, which is not empty, when handle_message
\* returned, and with the error notice when it raised; never with both
C29_ExactlyOneMessagePerEvent ==
    \A r \in Requests :
        MessageAnswered(r)
        => /\ Len(sent_by(r)) = 1
           /\ sent_by(r)[1].channel = event_of(r).val.channel
           /\ req[r].raised
              => sent_by(r)[1].text = FixedResp(ErrorNoticeMsg)
           /\ ~req[r].raised
              => /\ response_truthy(req[r].response)
                 /\ sent_by(r)[1].text = req[r].response.val

\* a person asked for the summary of a channel, the summary was stored, and
\* no call of send_message was made
C29_Witness ==
    \E r \in Requests :
        /\ MessageAnswered(r)
        /\ req[r].outcome = "summarized"
        /\ req[r].wrote
        /\ ~response_truthy(req[r].response)
        /\ sent_by(r) = << >>

\* C30: the cursor stored for the pair never decreases: every step that
\* writes last_summary_ts over a stored value stores a timestamp that is
\* at least that value.
C30_CursorNeverDecreases ==
    [][input.some => input'.some /\ input'.val >= input.val]_vars

\* a worker that found an older newest_ts is about to write it over the
\* newer cursor another worker's call has stored meanwhile
C30_Witness ==
    \E r \in Requests :
        /\ req[r].pc = "update"
        /\ req[r].newest_ts.some
        /\ req[r].messages # {}
        /\ input.some
        /\ input.val > req[r].newest_ts.val

=============================================================================
